---------------------------- MODULE Spec2Model ----------------------------
(***************************************************************************)
(* A model of the SwClock repository: the PI-disciplined clock             *)
(* (src/src/sw_clock/sw_clock.c), the scale+slew clock                     *)
(* (src/src/sw_clock/swclock.c), the SPSC byte ring                        *)
(* (src/src/sw_clock/sw_clock_ringbuf.c), the binary event logger and the  *)
(* life of a clock from swclock_create to swclock_destroy.                 *)
(*                                                                         *)
(* Numbers.  TLC integers are 32 bit, so every product that can exceed     *)
(* 2^31 goes through MulE9, which is exact.  The C doubles of sw_clock.c  *)
(* are held as fixed-point integers:                                       *)
(*   pi_freq_ppm            in units of 1/PPM_FIX ppm                      *)
(*   pi_int_error_s, max_observed_phase_error_s,                           *)
(*   accumulated_error_variance   in units of 1/NS_PER_SEC                 *)
(*   total_factor, cached_total_factor, base_factor                        *)
(*                          in units of 1/FACTOR_ONE                       *)
(* A cast (long long)(double) truncates toward zero and is modelled so.    *)
(* The scales of swclock.c are held as exact fractions, and the bytes of   *)
(* the ring as integers 0..255.                                            *)
(*                                                                         *)
(* Not modelled: the failure return of clock_gettime (the source assumes   *)
(* it cannot fail on a supported platform), the system wall clock written  *)
(* to last_poll_time, the CSV and JSON-LD writers (they change no clock    *)
(* state).  swclock_adjtime is the __APPLE__ build of the source.          *)
(***************************************************************************)
EXTENDS Integers, Sequences, FiniteSets, TLC

---------------------------------------------------------------------------
(* Exact arithmetic within 32 bits *)

Abs(x) == IF x < 0 THEN -x ELSE x

Sgn(x) == IF x < 0 THEN -1 ELSE IF x > 0 THEN 1 ELSE 0

Max(x, y) == IF x >= y THEN x ELSE y

Min(x, y) == IF x <= y THEN x ELSE y

\* floor(a * b / 10^9) for 0 <= a, b < 2^31, by long multiplication in
\* base 10^4: no intermediate value exceeds the result by more than 4 * 10^8.
MulE9(a, b) ==
    LET a0 == a % 10000
        a1 == (a \div 10000) % 10000
        a2 == a \div 100000000
        b0 == b % 10000
        b1 == (b \div 10000) % 10000
        b2 == b \div 100000000
        d0 == a0 * b0
        d1 == a0 * b1 + a1 * b0
        d2 == a0 * b2 + a1 * b1 + a2 * b0
        d3 == a1 * b2 + a2 * b1
        d4 == a2 * b2
        t  == d2 + ((d1 + (d0 \div 10000)) \div 10000)
    IN  d4 * 10000000 + d3 * 1000 + (t \div 10)

\* a * b / 1e9 truncated toward zero: the C cast (long long)(double) of a
\* product of two fixed-point values, one of them in units of 1e-9.
TruncMulE9(a, b) == Sgn(a) * Sgn(b) * MulE9(Abs(a), Abs(b))

\* C integer division and remainder (toward zero), c > 0.
CDiv(a, c) == Sgn(a) * (Abs(a) \div c)

CMod(a, c) == a - c * CDiv(a, c)

\* (m & bit) != 0 for a single-bit mask.
HasBit(m, bit) == (m \div bit) % 2 = 1

---------------------------------------------------------------------------
(* Constants of sw_clock_constants.h and sw_clock.h *)

NTP_SCALE_FACTOR == 65536

NS_PER_SEC == 1000000000

NS_PER_US == 1000

SWCLOCK_POLL_NS == 10000000

SWCLOCK_PI_KP_PPM_PER_S == 200

SWCLOCK_PI_KI_PPM_PER_S2 == 8

SWCLOCK_PI_MAX_PPM == 200

SWCLOCK_PHASE_EPS_NS == 20000

MIN_SLEW_PPM == 100

ADJ_OFFSET == 1

ADJ_FREQUENCY == 2

ADJ_MAXERROR == 4

ADJ_ESTERROR == 8

ADJ_STATUS == 16

ADJ_TIMECONST == 32

ADJ_TAI == 128

ADJ_SETOFFSET == 256

ADJ_MICRO == 4096

ADJ_NANO == 8192

TIME_OK == 0

TIME_BAD == 5

STA_PLL == 1

CLOCK_REALTIME == 0

CLOCK_MONOTONIC == 1

CLOCK_MONOTONIC_RAW == 4

CLOCK_TAI == 11

\* Fixed-point scales of the doubles (see the head of the module).
PPM_FIX == 1000

FACTOR_ONE == 1000000000

PPM_PER_ONE == 1000000

---------------------------------------------------------------------------
(* Bounds of the model *)

\* The raw clock starts at RAW0 and the wall clock at RT0 when the clock is
\* created; raw time advances in steps of TICK_NS, MaxTicks times at most.
RAW0 == 1000

RT0 == 1000000000

TICK_NS == 2500001

MaxTicks == 2

\* Writer operations (poll, adjtime, settime, PI enable/disable) per run,
\* without reading threads (Spec) and with them (SpecRd).
MaxWrites == 3

MaxWritesRd == 2

\* swclock_gettime calls per run.
MaxReads == 2

\* Calls of swclock_poll and swclock_adjtime in a run that logs events.
MaxWritesEv == 2

\* Scale+slew clock: raw time advances SS_TICK_NS at a time, MaxSSTicks times;
\* the run makes at most MaxNow swclock_now_ns calls and MaxSSOps calls of
\* swclock_set_freq, swclock_adjust, swclock_set_backstep_guard, swclock_align_now.
SS_TICK_NS == 1000

MaxSSTicks == 2

MaxNow == 3

MaxSSOps == 2

\* The ring is built with SWCLOCK_RINGBUF_SIZE bytes (the header lets the build
\* override the 1 MB default); a run makes at most MaxPush swclock_ringbuf_push
\* calls on the bare ring.
SWCLOCK_RINGBUF_SIZE == 128

MaxPush == 5

\* Entries of the monitor's circular buffer (36000 in sw_clock_monitor.h).
SWCLOCK_MONITOR_BUFFER_SIZE == 4

\* Samples compute_metrics asks for (100 in sw_clock_monitor.c).
MinSamples == 2

\* Samples added to the monitor, steps of its time of day, and the length
\* of a step in ns.
MaxAdds == 5

MaxMonTime == 2

MonTickNs == 500000000

\* Calls of pi_update, and calls on an estimator.
MaxPiUpdates == 5

MaxEstOps == 4

\* Computations of metrics and calls of swclock_monitor_get_metrics.
MaxComputes == 2

MaxMonReads == 1

\* Slew run to completion: polls after the one ADJ_OFFSET request, and the raw
\* time between two polls of a caller that polls faster than the poll thread.
MaxSlewPolls == 7

ShortGapNs == 1000

\* A poll held up for half a second, and how many polls of a slew may be.
LateGapNs == 500000000

MaxLatePolls == 1

\* Sample ring followed push by push: calls of swclock_monitor_add_sample.
MaxBufAdds == 6

\* Event stream: records the ring of the stream holds, and events the poll
\* worker logs while the log is started and stopped.
StreamRingCap == 2

MaxOtherEvents == 2

\* |remaining_phase_ns| the requests may build up (keeps err^2 within 32 bits).
PhaseCap == 1400000000

---------------------------------------------------------------------------
(* sw_clock_utilities.h *)

ts_to_ns(t) == t.tv_sec * NS_PER_SEC + t.tv_nsec

ns_to_ts(ns) ==
    LET sec  == CDiv(ns, NS_PER_SEC)
        nsec == CMod(ns, NS_PER_SEC)
    IN  IF nsec < 0
        THEN [tv_sec |-> sec - 1, tv_nsec |-> nsec + NS_PER_SEC]
        ELSE [tv_sec |-> sec, tv_nsec |-> nsec]

\* ((double)scaled) / 65536.0, in ppm fixed point.
scaledppm_to_ppm(scaled) ==
    Sgn(scaled) * ((Abs(scaled) \div NTP_SCALE_FACTOR) * PPM_FIX
                   + ((Abs(scaled) % NTP_SCALE_FACTOR) * PPM_FIX) \div NTP_SCALE_FACTOR)

\* 1.0 + scaled / (65536.0 * 1.0e6), in factor fixed point.
scaledppm_to_factor(scaled_ppm) ==
    FACTOR_ONE + scaledppm_to_ppm(scaled_ppm) * (FACTOR_ONE \div (PPM_PER_ONE * PPM_FIX))

---------------------------------------------------------------------------
(* sw_clock.c: the PI-disciplined clock.  A SwClock value is the struct. *)

total_factor(c) ==
    LET base_ppm  == scaledppm_to_ppm(c.freq_scaled_ppm)
        total_ppm == base_ppm + c.pi_freq_ppm
    IN  FACTOR_ONE + total_ppm * (FACTOR_ONE \div (PPM_PER_ONE * PPM_FIX))

\* The elapsed time taken unscaled.
ScaleElapsed_Unscaled(elapsed_raw_ns, factor) ==
    elapsed_raw_ns

\* (int64_t)((double)elapsed_raw_ns * factor)
ScaleElapsed(elapsed_raw_ns, factor) ==
    TruncMulE9(elapsed_raw_ns, factor)

\* The rebase with the applied phase added to the pending phase.
swclock_rebase_AddsApplied(c, now_raw_ns) ==
    LET e0               == now_raw_ns - c.ref_mono_raw
        elapsed_raw_ns   == IF e0 < 0 THEN 0 ELSE e0
        factor           == total_factor(c)
        adj_elapsed_ns   == ScaleElapsed(elapsed_raw_ns, factor)
        base_factor      == scaledppm_to_factor(c.freq_scaled_ppm)
        delta_factor     == factor - base_factor
        applied_phase_ns == TruncMulE9(elapsed_raw_ns, delta_factor)
        remaining ==
            IF c.remaining_phase_ns # 0
            THEN IF Abs(c.remaining_phase_ns) <= Abs(applied_phase_ns)
                 THEN 0
                 ELSE c.remaining_phase_ns + applied_phase_ns
            ELSE c.remaining_phase_ns
    IN  [c EXCEPT !.base_rt_ns          = @ + adj_elapsed_ns,
                  !.base_mono_ns        = @ + adj_elapsed_ns,
                  !.remaining_phase_ns  = remaining,
                  !.ref_mono_raw        = now_raw_ns,
                  !.cached_total_factor = factor]

swclock_rebase_now_and_update(c, now_raw_ns) ==
    LET e0               == now_raw_ns - c.ref_mono_raw
        elapsed_raw_ns   == IF e0 < 0 THEN 0 ELSE e0
        factor           == total_factor(c)
        adj_elapsed_ns   == ScaleElapsed(elapsed_raw_ns, factor)
        base_factor      == scaledppm_to_factor(c.freq_scaled_ppm)
        delta_factor     == factor - base_factor
        applied_phase_ns == TruncMulE9(elapsed_raw_ns, delta_factor)
        remaining ==
            IF c.remaining_phase_ns # 0
            THEN IF Abs(c.remaining_phase_ns) <= Abs(applied_phase_ns)
                 THEN 0
                 ELSE c.remaining_phase_ns - applied_phase_ns
            ELSE c.remaining_phase_ns
    IN  [c EXCEPT !.base_rt_ns          = @ + adj_elapsed_ns,
                  !.base_mono_ns        = @ + adj_elapsed_ns,
                  !.remaining_phase_ns  = remaining,
                  !.ref_mono_raw        = now_raw_ns,
                  !.cached_total_factor = factor]

\* The clamp of swclock_pi_step with the upper limit forgotten.
ClampPpm_NoUpper(u_ppm) ==
    IF u_ppm < -(SWCLOCK_PI_MAX_PPM * PPM_FIX)
    THEN -(SWCLOCK_PI_MAX_PPM * PPM_FIX)
    ELSE u_ppm

\* The clamp of swclock_pi_step.
ClampPpm(u_ppm) ==
    IF u_ppm > SWCLOCK_PI_MAX_PPM * PPM_FIX THEN SWCLOCK_PI_MAX_PPM * PPM_FIX
    ELSE IF u_ppm < -(SWCLOCK_PI_MAX_PPM * PPM_FIX)
         THEN -(SWCLOCK_PI_MAX_PPM * PPM_FIX)
         ELSE u_ppm

\* The integrator of swclock_pi_step after the step; dt_ns is the elapsed raw
\* time of the poll in ns (dt_s = dt_ns / 1e9).
PiIntegrator(c, dt_ns) ==
    c.pi_int_error_s + TruncMulE9(c.remaining_phase_ns, dt_ns)

\* u_ppm of swclock_pi_step before the clamp.
PiOutput(c, dt_ns) ==
    LET err_s == c.remaining_phase_ns
        u0    == TruncMulE9(err_s, SWCLOCK_PI_KP_PPM_PER_S * PPM_FIX)
                 + TruncMulE9(PiIntegrator(c, dt_ns),
                              SWCLOCK_PI_KI_PPM_PER_S2 * PPM_FIX)
    IN  IF c.remaining_phase_ns # 0
           /\ Abs(err_s) < NS_PER_SEC \div 100
           /\ Abs(u0) < MIN_SLEW_PPM * PPM_FIX
        THEN IF c.remaining_phase_ns > 0
             THEN MIN_SLEW_PPM * PPM_FIX
             ELSE -(MIN_SLEW_PPM * PPM_FIX)
        ELSE u0

\* swclock_pi_step without its closing anti-windup block.
swclock_pi_step_NoAntiWindup(c, dt_ns) ==
    IF ~c.pi_servo_enabled THEN c
    ELSE [c EXCEPT !.pi_int_error_s = PiIntegrator(c, dt_ns),
                   !.pi_freq_ppm = ClampPpm(PiOutput(c, dt_ns))]

swclock_pi_step(c, dt_ns) ==
    IF ~c.pi_servo_enabled THEN c
    ELSE IF Abs(c.remaining_phase_ns) <= SWCLOCK_PHASE_EPS_NS
         THEN [c EXCEPT !.remaining_phase_ns = 0,
                        !.pi_int_error_s = 0,
                        !.pi_freq_ppm = 0,
                        !.max_observed_phase_error_s = 0]
         ELSE [c EXCEPT !.pi_int_error_s = PiIntegrator(c, dt_ns),
                        !.pi_freq_ppm = ClampPpm(PiOutput(c, dt_ns))]


\* r * r <= 1000 * v, for 0 <= r <= 10^6 and v >= 0, without the product.
SquareAtMostE3(r, v) ==
    LET r1 == r \div 1000
        r0 == r % 1000
        q  == r1 * r1 * 1000 + 2 * r1 * r0 + ((r0 * r0) \div 1000)
        m  == (r0 * r0) % 1000
    IN  q < v \/ (q = v /\ m = 0)

\* min(hi, floor(sqrt(1000 * v))), searched in lo..hi: sqrt of a variance in
\* units of 1e-9 s^2, in microseconds.
RECURSIVE ISqrtE3(_, _, _)
ISqrtE3(v, lo, hi) ==
    IF lo >= hi THEN lo
    ELSE IF SquareAtMostE3((lo + hi + 1) \div 2, v)
         THEN ISqrtE3(v, (lo + hi + 1) \div 2, hi)
         ELSE ISqrtE3(v, lo, ((lo + hi + 1) \div 2) - 1)

swclock_update_error_estimates(c) ==
    LET current_phase_error_s == Abs(c.remaining_phase_ns)
        max_obs == Max(c.max_observed_phase_error_s, current_phase_error_s)
        count   == c.error_samples_count + 1
        n       == IF count > 100 THEN 100 ELSE count
        error_contribution ==
            TruncMulE9(current_phase_error_s, current_phase_error_s)
        variance == c.accumulated_error_variance
                    - (c.accumulated_error_variance \div n)
                    + (error_contribution \div n)
        maxerr  == (max_obs + Abs(c.pi_int_error_s)) \div NS_PER_US
        esterr  == ISqrtE3(variance, 0, 1000000)
                   + (Abs(c.pi_freq_ppm) \div (10 * PPM_FIX))
    IN  [c EXCEPT !.max_observed_phase_error_s = max_obs,
                  !.error_samples_count        = count,
                  !.accumulated_error_variance = variance,
                  !.maxerror = Min(maxerr, 1000000),
                  !.esterror = Min(esterr, 1000000)]

\* The poll with the servo step left out.
swclock_poll_NoPiStep(c, now_raw_ns) ==
    swclock_update_error_estimates(swclock_rebase_now_and_update(c, now_raw_ns))

\* The body of swclock_poll between wrlock and unlock.
swclock_poll(c, now_raw_ns) ==
    LET before == c.ref_mono_raw
        c1     == swclock_rebase_now_and_update(c, now_raw_ns)
        dt_ns  == c1.ref_mono_raw - before
        dt     == IF dt_ns > 0 THEN dt_ns ELSE SWCLOCK_POLL_NS
        c2     == IF c1.pi_servo_enabled THEN swclock_pi_step(c1, dt) ELSE c1
        stuck  == IF c2.remaining_phase_ns # 0
                     /\ c2.remaining_phase_ns = c2.last_remaining_phase_ns
                  THEN c2.stuck_poll_count + 1
                  ELSE 0
        c3     == [c2 EXCEPT !.stuck_poll_count = stuck,
                             !.last_remaining_phase_ns = c2.remaining_phase_ns]
    IN  swclock_update_error_estimates(c3)

\* The state swclock_create leaves, created at raw time raw_ns, wall time rt_ns.
swclock_create(raw_ns, rt_ns) ==
    [ref_mono_raw |-> raw_ns,
     base_rt_ns |-> rt_ns,
     base_mono_ns |-> raw_ns,
     cached_total_factor |-> FACTOR_ONE,
     freq_scaled_ppm |-> 0,
     pi_freq_ppm |-> 0,
     pi_int_error_s |-> 0,
     pi_servo_enabled |-> TRUE,
     remaining_phase_ns |-> 0,
     last_remaining_phase_ns |-> 0,
     stuck_poll_count |-> 0,
     max_observed_phase_error_s |-> 0,
     accumulated_error_variance |-> 0,
     error_samples_count |-> 0,
     status |-> 0, maxerror |-> 0, esterror |-> 0,
     constant |-> 0, tick |-> 0, tai |-> 0]

\* The body of swclock_settime(CLOCK_REALTIME, tp) between wrlock and unlock.
swclock_settime(c, now_raw_ns, tp) ==
    LET c1 == swclock_rebase_now_and_update(c, now_raw_ns)
    IN  [c1 EXCEPT !.base_rt_ns = IF tp.tv_sec < 0 THEN 0 ELSE ts_to_ns(tp),
                   !.remaining_phase_ns = 0,
                   !.pi_int_error_s = 0,
                   !.pi_freq_ppm = 0]

\* The relative step ADJ_SETOFFSET asks for (the __APPLE__ build: timex.time
\* when it is nonzero, else timex.offset).
SetOffsetDelta(tx) ==
    IF tx.time.tv_sec # 0 \/ tx.time.tv_usec # 0
    THEN LET tv_nsec == IF HasBit(tx.modes, ADJ_NANO)
                        THEN tx.time.tv_usec
                        ELSE tx.time.tv_usec * 1000
         IN  tx.time.tv_sec * NS_PER_SEC + tv_nsec
    ELSE IF HasBit(tx.modes, ADJ_NANO) THEN tx.offset ELSE tx.offset * 1000

\* The slew ADJ_OFFSET asks for, in ns.
OffsetDelta(tx) ==
    IF HasBit(tx.modes, ADJ_NANO) THEN tx.offset ELSE tx.offset * 1000

\* ADJ_FREQUENCY of swclock_adjtime.
AdjFrequency(c, tx) ==
    IF HasBit(tx.modes, ADJ_FREQUENCY)
    THEN [c EXCEPT !.freq_scaled_ppm = tx.freq]
    ELSE c

\* ADJ_OFFSET that leaves the servo output as it was.
AdjOffset_KeepsFreq(c, tx) ==
    IF HasBit(tx.modes, ADJ_OFFSET)
    THEN [c EXCEPT !.remaining_phase_ns = @ + OffsetDelta(tx),
                   !.pi_int_error_s = 0]
    ELSE c

\* ADJ_OFFSET of swclock_adjtime.
AdjOffset(c, tx) ==
    IF HasBit(tx.modes, ADJ_OFFSET)
    THEN [c EXCEPT !.remaining_phase_ns = @ + OffsetDelta(tx),
                   !.pi_int_error_s = 0,
                   !.pi_freq_ppm = 0]
    ELSE c

\* ADJ_SETOFFSET of swclock_adjtime.
AdjSetOffset(c, tx) ==
    IF HasBit(tx.modes, ADJ_SETOFFSET)
    THEN [c EXCEPT !.base_rt_ns = @ + SetOffsetDelta(tx),
                   !.remaining_phase_ns = 0,
                   !.pi_int_error_s = 0]
    ELSE c

\* ADJ_STATUS and ADJ_TAI of swclock_adjtime.
AdjStatusTai(c, tx) ==
    LET c1 == IF HasBit(tx.modes, ADJ_STATUS)
              THEN [c EXCEPT !.status = tx.status] ELSE c
    IN  IF HasBit(tx.modes, ADJ_TAI)
        THEN [c1 EXCEPT !.tai = tx.constant] ELSE c1

\* The body of swclock_adjtime between wrlock and unlock: the new state.
swclock_adjtime(c, now_raw_ns, tx) ==
    AdjStatusTai(
        AdjSetOffset(
            AdjOffset(
                AdjFrequency(swclock_rebase_now_and_update(c, now_raw_ns), tx),
                tx),
            tx),
        tx)

\* The readback swclock_adjtime writes into *tptr, from the new state c.
AdjtimeReadback(c, tx) ==
    [tx EXCEPT !.status = c.status, !.freq = c.freq_scaled_ppm,
               !.maxerror = c.maxerror, !.esterror = c.esterror,
               !.constant = c.constant, !.precision = 1,
               !.tick = c.tick, !.tai = c.tai]

\* The read-locked part of swclock_gettime: the values it copies.
GettimeSnapshot(c, clk_id) ==
    [base_ns  |-> IF clk_id = CLOCK_REALTIME THEN c.base_rt_ns ELSE c.base_mono_ns,
     ref_time |-> c.ref_mono_raw,
     factor   |-> c.cached_total_factor]

\* The unlocked part of swclock_gettime: extrapolation from the copied values
\* to the raw time read after the unlock.
GettimeExtrapolate(snap, now_raw_ns) ==
    LET e0             == now_raw_ns - snap.ref_time
        elapsed_raw_ns == IF e0 < 0 THEN 0 ELSE e0
        adj_elapsed_ns == ScaleElapsed(elapsed_raw_ns, snap.factor)
    IN  ns_to_ts(snap.base_ns + adj_elapsed_ns)

---------------------------------------------------------------------------
(* State of the whole model.  Each specification below runs one component  *)
(* and leaves the variables of the others alone.                           *)

VARIABLES clk, now_raw, rd, pi_pc, last_op, nwrites, nticks, nreads, wlimit,
          slew_only

pivars == <<clk, now_raw, rd, pi_pc, last_op, nwrites, nticks, nreads, wlimit,
            slew_only>>

\* The scale+slew clock (swclock.c): the struct, the raw clock, the threads
\* inside swclock_now_ns, the thread inside swclock_align_now, and history.
VARIABLES sw, mono, th, al, ss_done, ss_n, ss_aligned, ss_adj

ssvars == <<sw, mono, th, al, ss_done, ss_n, ss_aligned, ss_adj>>

\* The event ring (sw_clock_ringbuf.c) and the event logger of sw_clock.c:
\* the ring, the threads inside swclock_log_event / swclock_ringbuf_push, the
\* thread inside swclock_ringbuf_pop, the logger's fields of SwClock, history.
VARIABLES rb, prod, cons, ev, hist

rbvars == <<rb, prod, cons, ev, hist>>

\* The life of a PI-disciplined clock: its flags, its background threads and
\* the thread that destroys it.
VARIABLES lc

lcvars == <<lc>>

\* The real-time monitor (sw_clock_monitor.c): the swclock_monitor_t struct
\* with the time of day, and the threads inside it (the compute thread and a
\* thread calling swclock_monitor_get_metrics) with the history of the last
\* computation.
VARIABLES mon, mth

monvars == <<mon, mth>>

\* The servo library: a PI servo (pi_servo.c) and a two-state estimator
\* (kf_servo.c, akf_servo.c, ekf_servo.c, aekf_servo.c).
VARIABLES pis, est

servovars == <<pis, est>>

\* History of one slew of the PI-disciplined clock: the delta of the ADJ_OFFSET
\* request, the polls made since, and how many of them ran on a rebase whose
\* applied_phase_ns was 0 although the PI rate was not.
VARIABLES slw

\* What the polls of the slew have added to base_rt_ns beyond the advance at
\* the base rate (extra), the share of the last poll (last), and the polls
\* that came later than one poll period after the step before them (late).
VARIABLES sle

slewvars == <<slw, sle>>

\* One event log from swclock_start_event_log to swclock_stop_event_log: the
\* logging fields of struct SwClock with the ring as the sequence of records
\* it holds, the file as the sequence of records written, and the positions
\* of the thread that starts and stops the log, of the poll worker inside
\* swclock_log_event, and of the logger thread.
VARIABLES es

strmvars == <<es>>

\* The last call of sw_adjtime: the timeval and the limit it was given, the
\* request it computed, and the offset and the window swclock_adjust installed.
VARIABLES ca

compatvars == <<ca>>

vars == <<pivars, ssvars, rbvars, lcvars, monvars, servovars, slewvars, strmvars, compatvars>>

notpi == <<ssvars, rbvars, lcvars, monvars, servovars, slewvars, strmvars, compatvars>>

notss == <<pivars, rbvars, lcvars, monvars, servovars, slewvars, strmvars, compatvars>>

notrb == <<pivars, ssvars, lcvars, monvars, servovars, slewvars, strmvars, compatvars>>

notlc == <<pivars, ssvars, rbvars, monvars, servovars, slewvars, strmvars, compatvars>>

notmon == <<pivars, ssvars, rbvars, lcvars, servovars, slewvars, strmvars, compatvars>>

notservo == <<pivars, ssvars, rbvars, lcvars, monvars, slewvars, strmvars, compatvars>>

notslew == <<ssvars, rbvars, lcvars, monvars, servovars, strmvars, compatvars>>

notstrm == <<pivars, ssvars, rbvars, lcvars, monvars, servovars, slewvars,
             compatvars>>

notcompat == <<pivars, ssvars, rbvars, lcvars, monvars, servovars, slewvars,
               strmvars>>

---------------------------------------------------------------------------
(* The PI-disciplined clock as a state machine.                            *)
(* Writers hold the write lock for their whole body and read the raw clock *)
(* inside it, so each writer is one step.  swclock_gettime is two steps:   *)
(* the read-locked copy, then the raw clock read and the extrapolation.    *)
(* swclock_enable_PIServo and swclock_disable_PIServo test the flag before *)
(* they take the lock, so they are two steps as well.                      *)

\* The reading threads.
Readers == {1}

\* A timex with every field zero.
Tx0 ==
    [modes |-> 0, offset |-> 0, freq |-> 0, maxerror |-> 0, esterror |-> 0,
     status |-> 0, constant |-> 0, precision |-> 0, tick |-> 0, tai |-> 0,
     time |-> [tv_sec |-> 0, tv_usec |-> 0]]

\* The requests callers pass to swclock_adjtime.
TxRequests ==
    { [Tx0 EXCEPT !.modes = ADJ_FREQUENCY + ADJ_STATUS + ADJ_TAI
                            + ADJ_MAXERROR + ADJ_ESTERROR + ADJ_TIMECONST,
                  !.freq = -(100 * NTP_SCALE_FACTOR),
                  !.status = STA_PLL, !.constant = 37,
                  !.maxerror = 500, !.esterror = 300],
      [Tx0 EXCEPT !.modes = ADJ_OFFSET + ADJ_MICRO, !.offset = 1200000],
      [Tx0 EXCEPT !.modes = ADJ_OFFSET + ADJ_NANO, !.offset = -30000],
      [Tx0 EXCEPT !.modes = ADJ_OFFSET + ADJ_NANO, !.offset = 15000],
      [Tx0 EXCEPT !.modes = ADJ_SETOFFSET + ADJ_MICRO,
                  !.time = [tv_sec |-> 0, tv_usec |-> 200000]],
      [Tx0 EXCEPT !.modes = ADJ_SETOFFSET + ADJ_NANO, !.offset = -40000] }

\* The times callers pass to swclock_settime.
TpRequests ==
    { [tv_sec |-> 1, tv_nsec |-> 5], [tv_sec |-> -1, tv_nsec |-> 0] }

\* The clock ids callers pass to swclock_gettime.
ClockIds == {CLOCK_REALTIME, CLOCK_MONOTONIC, CLOCK_MONOTONIC_RAW, CLOCK_TAI}

NoTs == [tv_sec |-> 0, tv_nsec |-> 0]

\* History: the last writer that ran (kind), when (at), on which state (pre),
\* with which request and clock id, how many writers have run (n), and what
\* the call returned (rc, errno).
OpRecord(kind, tx, tp) ==
    [kind |-> kind, n |-> nwrites + 1, at |-> now_raw, pre |-> clk,
     tx |-> tx, tp |-> tp, id |-> CLOCK_REALTIME, rc |-> 0, errno |-> "none"]

InitOp ==
    [kind |-> "create", n |-> 0, at |-> RAW0, pre |-> swclock_create(RAW0, RT0),
     tx |-> Tx0, tp |-> NoTs, id |-> CLOCK_REALTIME, rc |-> 0, errno |-> "none"]

NoRead ==
    [valid |-> FALSE, id |-> CLOCK_REALTIME, tp |-> NoTs, t_read |-> RAW0, n |-> 0,
     n_read |-> 0]

\* A reader before its first call.  pc is the position inside swclock_gettime;
\* snap the values copied under the read lock; op the last writer that had run
\* at the copy; t_read the raw time read after the unlock and n_read the number
\* of writers that had run by then; rc, tp the result; prev the result of the
\* thread's previous call.
InitRd ==
    [pc |-> "idle", id |-> CLOCK_REALTIME,
     snap |-> GettimeSnapshot(swclock_create(RAW0, RT0), CLOCK_REALTIME),
     op |-> InitOp, t_read |-> RAW0, n_read |-> 0, rc |-> 0, tp |-> NoTs,
     errno |-> "none", prev |-> NoRead]

\* The state after swclock_create; limit is the number of writer operations
\* the run may make.
PIInit(limit) ==
    /\ clk = swclock_create(RAW0, RT0)
    /\ now_raw = RAW0
    /\ last_op = InitOp
    /\ rd = [r \in Readers |-> InitRd]
    /\ pi_pc = "idle"
    /\ nwrites = 0
    /\ nticks = 0
    /\ nreads = 0
    /\ wlimit = limit
    /\ slew_only = TRUE

\* A writer has run: history.  slew_only stays TRUE while the run has made
\* only polls and adjtime calls that do not step the clock backwards.
Written(kind, tx, tp, keeps_slew_only) ==
    /\ last_op' = OpRecord(kind, tx, tp)
    /\ nwrites' = nwrites + 1
    /\ slew_only' = (slew_only /\ keeps_slew_only)
    /\ UNCHANGED <<now_raw, rd, nticks, nreads, wlimit>>

\* The raw monotonic clock advances.
Tick ==
    /\ nticks < MaxTicks
    /\ nticks' = nticks + 1
    /\ now_raw' = now_raw + TICK_NS
    /\ UNCHANGED <<clk, rd, pi_pc, last_op, nwrites, nreads, wlimit, slew_only>>
    /\ UNCHANGED notpi

\* One iteration of the poll worker: swclock_poll.
Poll ==
    /\ nwrites < wlimit
    /\ clk' = swclock_poll(clk, now_raw)
    /\ Written("poll", Tx0, NoTs, TRUE)
    /\ UNCHANGED pi_pc
    /\ UNCHANGED notpi

\* swclock_adjtime(c, tx).
Adjtime(tx) ==
    /\ nwrites < wlimit
    /\ HasBit(tx.modes, ADJ_OFFSET) =>
           Abs(swclock_rebase_now_and_update(clk, now_raw).remaining_phase_ns)
               <= PhaseCap - Abs(OffsetDelta(tx))
    /\ clk' = swclock_adjtime(clk, now_raw, tx)
    /\ Written("adjtime", tx, NoTs,
               ~(HasBit(tx.modes, ADJ_SETOFFSET) /\ SetOffsetDelta(tx) < 0))
    /\ UNCHANGED pi_pc
    /\ UNCHANGED notpi

\* swclock_settime(c, CLOCK_REALTIME, tp).
SetTime(tp) ==
    /\ nwrites < wlimit
    /\ clk' = swclock_settime(clk, now_raw, tp)
    /\ Written("settime", Tx0, tp, FALSE)
    /\ UNCHANGED pi_pc
    /\ UNCHANGED notpi

\* The ids other than CLOCK_REALTIME callers pass to swclock_settime.
BadSetIds == {CLOCK_MONOTONIC, CLOCK_TAI}

\* swclock_settime with its clock id check left out.
SetTimeBadId_NoCheck(clk_id, tp) ==
    /\ nwrites < wlimit
    /\ clk_id # CLOCK_REALTIME
    /\ clk' = swclock_settime(clk, now_raw, tp)
    /\ last_op' = [OpRecord("settime_einval", Tx0, tp) EXCEPT !.id = clk_id]
    /\ nwrites' = nwrites + 1
    /\ UNCHANGED <<now_raw, rd, pi_pc, nticks, nreads, wlimit, slew_only>>
    /\ UNCHANGED notpi

\* swclock_settime(c, clk_id, tp) with clk_id != CLOCK_REALTIME: EINVAL before
\* the lock is taken.
SetTimeBadId(clk_id, tp) ==
    /\ nwrites < wlimit
    /\ clk_id # CLOCK_REALTIME
    /\ last_op' = [OpRecord("settime_einval", Tx0, tp) EXCEPT
                      !.id = clk_id, !.rc = -1, !.errno = "EINVAL"]
    /\ nwrites' = nwrites + 1
    /\ UNCHANGED <<clk, now_raw, rd, pi_pc, nticks, nreads, wlimit, slew_only>>
    /\ UNCHANGED notpi

\* swclock_adjtime(c, NULL): EINVAL before anything is logged or locked.
AdjtimeNull ==
    /\ nwrites < wlimit
    /\ last_op' = [OpRecord("adjtime_einval", Tx0, NoTs) EXCEPT
                      !.rc = -1, !.errno = "EINVAL"]
    /\ nwrites' = nwrites + 1
    /\ UNCHANGED <<clk, now_raw, rd, pi_pc, nticks, nreads, wlimit, slew_only>>
    /\ UNCHANGED notpi

\* swclock_enable_PIServo: the unlocked test of the flag.
EnablePIServoTest ==
    /\ pi_pc = "idle"
    /\ nwrites < wlimit
    /\ clk.pi_servo_enabled # TRUE
    /\ pi_pc' = "enable"
    /\ UNCHANGED <<clk, now_raw, rd, last_op, nwrites, nticks, nreads, wlimit,
                   slew_only>>
    /\ UNCHANGED notpi

\* The locked update of swclock_enable_PIServo.
enable_PIServo_locked(c) ==
    [c EXCEPT !.pi_servo_enabled = TRUE, !.pi_int_error_s = 0, !.pi_freq_ppm = 0]

EnablePIServoSet ==
    /\ pi_pc = "enable"
    /\ nwrites < wlimit
    /\ clk' = enable_PIServo_locked(clk)
    /\ Written("enable_PIServo", Tx0, NoTs, FALSE)
    /\ pi_pc' = "idle"
    /\ UNCHANGED notpi

\* swclock_disable_PIServo: the unlocked test of the flag.
DisablePIServoTest ==
    /\ pi_pc = "idle"
    /\ nwrites < wlimit
    /\ clk.pi_servo_enabled = TRUE
    /\ pi_pc' = "disable"
    /\ UNCHANGED <<clk, now_raw, rd, last_op, nwrites, nticks, nreads, wlimit,
                   slew_only>>
    /\ UNCHANGED notpi

\* The locked update of swclock_disable_PIServo.
disable_PIServo_locked(c) ==
    [c EXCEPT !.pi_servo_enabled = FALSE, !.pi_int_error_s = 0, !.pi_freq_ppm = 0]

DisablePIServoSet ==
    /\ pi_pc = "disable"
    /\ nwrites < wlimit
    /\ clk' = disable_PIServo_locked(clk)
    /\ Written("disable_PIServo", Tx0, NoTs, FALSE)
    /\ pi_pc' = "idle"
    /\ UNCHANGED notpi

\* The locked update of swclock_disable_pi_servo.
swclock_disable_pi_servo(c) == [c EXCEPT !.pi_servo_enabled = FALSE]

DisablePiServo ==
    /\ nwrites < wlimit
    /\ clk' = swclock_disable_pi_servo(clk)
    /\ Written("disable_pi_servo", Tx0, NoTs, FALSE)
    /\ UNCHANGED pi_pc
    /\ UNCHANGED notpi

\* What a thread keeps of the call it has completed when it starts the next.
RdNextCall(s) ==
    [s EXCEPT !.prev = IF s.pc = "done"
                       THEN [valid |-> s.rc = 0, id |-> s.id, tp |-> s.tp,
                             t_read |-> s.t_read, n |-> s.op.n,
                             n_read |-> s.n_read]
                       ELSE @]

\* swclock_gettime(c, CLOCK_MONOTONIC_RAW, tp): the raw clock, unlocked.
GetTimeRaw(r) ==
    /\ rd[r].pc # "locked"
    /\ nreads < MaxReads
    /\ nreads' = nreads + 1
    /\ rd' = [rd EXCEPT ![r] =
                [RdNextCall(rd[r]) EXCEPT !.pc = "done", !.id = CLOCK_MONOTONIC_RAW,
                                          !.op = last_op, !.t_read = now_raw,
                                          !.n_read = nwrites,
                                          !.rc = 0, !.tp = ns_to_ts(now_raw)]]
    /\ UNCHANGED <<clk, now_raw, pi_pc, last_op, nwrites, nticks, wlimit, slew_only>>
    /\ UNCHANGED notpi

\* swclock_gettime with an id the switch does not know: EINVAL, *tp untouched.
GetTimeBadId(r, clk_id) ==
    /\ rd[r].pc # "locked"
    /\ clk_id \notin {CLOCK_REALTIME, CLOCK_MONOTONIC, CLOCK_MONOTONIC_RAW}
    /\ nreads < MaxReads
    /\ nreads' = nreads + 1
    /\ rd' = [rd EXCEPT ![r] =
                [RdNextCall(rd[r]) EXCEPT !.pc = "done", !.id = clk_id,
                                          !.op = last_op, !.t_read = now_raw,
                                          !.n_read = nwrites, !.rc = -1,
                                          !.errno = "EINVAL"]]
    /\ UNCHANGED <<clk, now_raw, pi_pc, last_op, nwrites, nticks, wlimit, slew_only>>
    /\ UNCHANGED notpi

\* swclock_gettime copying the base before the last writer ran and the
\* reference and factor after it, as it could without the read lock.
GetTimeLocked_TornBase(r, clk_id) ==
    /\ rd[r].pc # "locked"
    /\ clk_id \in {CLOCK_REALTIME, CLOCK_MONOTONIC}
    /\ nreads < MaxReads
    /\ nreads' = nreads + 1
    /\ rd' = [rd EXCEPT ![r] =
                [RdNextCall(rd[r]) EXCEPT !.pc = "locked", !.id = clk_id,
                                          !.op = last_op,
                                          !.snap = [GettimeSnapshot(clk, clk_id) EXCEPT
                                     !.base_ns = GettimeSnapshot(last_op.pre, clk_id).base_ns]]]
    /\ UNCHANGED <<clk, now_raw, pi_pc, last_op, nwrites, nticks, wlimit, slew_only>>
    /\ UNCHANGED notpi

\* swclock_gettime, REALTIME or MONOTONIC: the copy under the read lock.
GetTimeLocked(r, clk_id) ==
    /\ rd[r].pc # "locked"
    /\ clk_id \in {CLOCK_REALTIME, CLOCK_MONOTONIC}
    /\ nreads < MaxReads
    /\ nreads' = nreads + 1
    /\ rd' = [rd EXCEPT ![r] =
                [RdNextCall(rd[r]) EXCEPT !.pc = "locked", !.id = clk_id,
                                          !.op = last_op,
                                          !.snap = GettimeSnapshot(clk, clk_id)]]
    /\ UNCHANGED <<clk, now_raw, pi_pc, last_op, nwrites, nticks, wlimit, slew_only>>
    /\ UNCHANGED notpi

\* swclock_gettime, REALTIME or MONOTONIC: the raw read after the unlock and
\* the extrapolation.
GetTimeRead(r) ==
    /\ rd[r].pc = "locked"
    /\ rd' = [rd EXCEPT ![r] =
                [@ EXCEPT !.pc = "done", !.t_read = now_raw, !.n_read = nwrites,
                          !.rc = 0,
                          !.tp = GettimeExtrapolate(rd[r].snap, now_raw)]]
    /\ UNCHANGED <<clk, now_raw, pi_pc, last_op, nwrites, nticks, nreads, wlimit,
                   slew_only>>
    /\ UNCHANGED notpi

\* The writers and the raw clock.
PINext ==
    \/ Tick
    \/ Poll
    \/ \E tx \in TxRequests : Adjtime(tx)
    \/ \E tp \in TpRequests : SetTime(tp)
    \/ \E clk_id \in BadSetIds : SetTimeBadId(clk_id, [tv_sec |-> 1, tv_nsec |-> 5])
    \/ AdjtimeNull
    \/ EnablePIServoTest
    \/ EnablePIServoSet
    \/ DisablePIServoTest
    \/ DisablePIServoSet
    \/ DisablePiServo

\* The writers, the raw clock and the reading threads.
RdNext ==
    \/ PINext
    \/ \E r \in Readers : GetTimeRaw(r)
    \/ \E r \in Readers, clk_id \in ClockIds : GetTimeBadId(r, clk_id)
    \/ \E r \in Readers, clk_id \in ClockIds : GetTimeLocked(r, clk_id)
    \/ \E r \in Readers : GetTimeRead(r)

---------------------------------------------------------------------------
(* swclock.c: the scale+slew clock.  A scale (a C double) is held as the   *)
(* exact fraction n/d, d > 0; llround rounds half away from zero.          *)

RECURSIVE Gcd(_, _)
Gcd(a, b) == IF b = 0 THEN a ELSE Gcd(b, a % b)

\* The fraction n/d in lowest terms, d > 0.
Frac(n, d) == [n |-> n \div Gcd(Abs(n), d), d |-> d \div Gcd(Abs(n), d)]

FracAdd(x, y) == Frac(x.n * y.d + y.n * x.d, x.d * y.d)

\* llround(p / q), q > 0.
LLRoundDiv(p, q) == Sgn(p) * ((2 * Abs(p) + q) \div (2 * q))

\* llround(scale * (double)x)
LLRoundMul(scale, x) == LLRoundDiv(scale.n * x, scale.d)

ZeroScale == [n |-> 0, d |-> 1]

rebaseline_locked(c, mono_ns, out_ns) ==
    [c EXCEPT !.ref_mono_ns = mono_ns, !.ref_out_ns = out_ns, !.slew_scale = ZeroScale]

\* map_now_locked: the struct it leaves (c) and the value it returns (raw).
map_now_locked(c, mono_ns) ==
    LET d0     == mono_ns - c.ref_mono_ns
        d_mono == IF d0 < 0 THEN 0 ELSE d0
        c1     == IF c.slew_window_left_ns > 0 /\ c.slew_remaining_ns # 0
                  THEN [c EXCEPT !.slew_scale =
                                     Frac(c.slew_remaining_ns, c.slew_window_left_ns)]
                  ELSE [c EXCEPT !.slew_scale = ZeroScale,
                                 !.slew_remaining_ns = 0,
                                 !.slew_window_left_ns = 0]
        step   == IF d_mono > c1.slew_window_left_ns
                  THEN c1.slew_window_left_ns ELSE d_mono
        r0     == LLRoundMul(c1.slew_scale, step)
        repaid == IF \/ (c1.slew_remaining_ns > 0 /\ r0 > c1.slew_remaining_ns)
                     \/ (c1.slew_remaining_ns < 0 /\ r0 < c1.slew_remaining_ns)
                  THEN c1.slew_remaining_ns ELSE r0
        closes == c1.slew_window_left_ns - step = 0
        c2     == IF c1.slew_window_left_ns > 0
                  THEN [c1 EXCEPT
                          !.slew_remaining_ns = @ - repaid,
                          !.slew_window_left_ns = @ - step,
                          !.ref_out_ns =
                              IF closes
                              THEN @ + LLRoundMul(FracAdd(c1.base_scale, c1.slew_scale),
                                                  step)
                              ELSE @,
                          !.ref_mono_ns = IF closes THEN @ + step ELSE @]
                  ELSE c1
        sum    == FracAdd(c2.base_scale, c2.slew_scale)
        scale  == IF sum.n < 0 THEN ZeroScale ELSE sum
    IN  [c   |-> c2,
         raw |-> c2.ref_out_ns + LLRoundMul(scale, mono_ns - c2.ref_mono_ns)]

\* swclock_create of swclock.c, at raw time m.
swclock_create_ss(m) ==
    [ref_mono_ns |-> m, ref_out_ns |-> 0, last_out_ns |-> 0,
     base_scale |-> [n |-> 1, d |-> 1],
     slew_remaining_ns |-> 0, slew_window_left_ns |-> 0,
     slew_scale |-> ZeroScale, backstep_guard_ns |-> 0]

\* The locked body of swclock_set_freq.
swclock_set_freq(c, mono_ns, freq_ppb) ==
    LET m == map_now_locked(c, mono_ns)
    IN  [rebaseline_locked(m.c, mono_ns, m.raw)
            EXCEPT !.base_scale = Frac(NS_PER_SEC + freq_ppb, NS_PER_SEC)]

\* The locked body of swclock_adjust.
swclock_adjust(c, mono_ns, offset_ns, slew_window_ns) ==
    LET w == IF slew_window_ns < 1 THEN 1 ELSE slew_window_ns
        m == map_now_locked(c, mono_ns)
    IN  [rebaseline_locked(m.c, mono_ns, m.raw)
            EXCEPT !.slew_remaining_ns = offset_ns,
                   !.slew_window_left_ns = Abs(w)]

\* The locked body of swclock_align_now.
swclock_align_now(c, mono_ns, target_now_ns) ==
    [rebaseline_locked(c, mono_ns, target_now_ns)
        EXCEPT !.slew_remaining_ns = 0, !.slew_window_left_ns = 0,
               !.slew_scale = ZeroScale]

SSThreads == {1, 2}

FreqPpbs == {500000000}

\* (offset_ns, slew_window_ns) requests of swclock_adjust
AdjustRequests == {<<-1500, 1000>>, <<600, 2000>>}

AlignTargets == {200}

GuardValues == {50}

NoReturn == [valid |-> FALSE, v |-> 0]

\* A thread outside swclock_now_ns.  floor is the largest value a completed
\* call had returned when this thread's last call started.
IdleThread == [pc |-> "idle", mono_ns |-> 0, raw |-> 0, out |-> 0,
               floor |-> NoReturn, returned |-> FALSE, aligned |-> 0]

\* History: the last swclock_adjust that no swclock_set_freq, swclock_adjust
\* or swclock_align_now has followed: when it ran (t0), the output it mapped
\* (out0), the base scale, and the offset and window it installed.  For the
\* last swclock_align_now that none of these has followed, valid is FALSE,
\* align is its number, out0 its target, done tells that it has returned and
\* reads counts the swclock_now_ns calls begun since.
NoAdjust == [valid |-> FALSE, t0 |-> 0, out0 |-> 0, base_scale |-> ZeroScale,
             offset_ns |-> 0, window_ns |-> 0, align |-> 0, done |-> FALSE,
             reads |-> 0]

SSInit ==
    /\ mono = 0
    /\ sw = swclock_create_ss(0)
    /\ th = [t \in SSThreads |-> IdleThread]
    /\ al = [pc |-> "idle", target |-> 0]
    /\ ss_done = NoReturn
    /\ ss_n = [now |-> 0, ops |-> 0, ticks |-> 0, limit |-> MaxNow]
    /\ ss_aligned = FALSE
    /\ ss_adj = NoAdjust

\* The scale+slew clock when nothing uses it.
SSIdle ==
    /\ mono = 0
    /\ sw = swclock_create_ss(0)
    /\ th = [t \in SSThreads |-> IdleThread]
    /\ al = [pc |-> "idle", target |-> 0]
    /\ ss_done = NoReturn
    /\ ss_n = [now |-> 0, ops |-> 0, ticks |-> 0, limit |-> 0]
    /\ ss_aligned = FALSE
    /\ ss_adj = NoAdjust

\* CLOCK_MONOTONIC_RAW advances.
SSTick ==
    /\ ss_n.ticks < MaxSSTicks
    /\ ss_n.limit > 0
    /\ mono' = mono + SS_TICK_NS
    /\ ss_n' = [ss_n EXCEPT !.ticks = @ + 1]
    /\ UNCHANGED <<sw, th, al, ss_done, ss_aligned, ss_adj>>
    /\ UNCHANGED notss

\* swclock_now_ns: mono_now_ns(), before the mutex is taken.
NowReadMono(t) ==
    /\ th[t].pc = "idle"
    /\ ss_n.now < ss_n.limit
    /\ th' = [th EXCEPT ![t] = [pc |-> "mono", mono_ns |-> mono, raw |-> 0, out |-> 0,
                                floor |-> ss_done, returned |-> FALSE,
                                aligned |-> IF ss_adj.done /\ ss_adj.reads = 0
                                            THEN ss_adj.align ELSE 0]]
    /\ ss_n' = [ss_n EXCEPT !.now = @ + 1]
    /\ ss_adj' = IF ss_adj.done THEN [ss_adj EXCEPT !.reads = 1] ELSE ss_adj
    /\ UNCHANGED <<sw, mono, al, ss_done, ss_aligned>>
    /\ UNCHANGED notss

\* swclock_now_ns: lock, raw = map_now_locked(c, mono_ns), unlock.
NowMap(t) ==
    /\ th[t].pc = "mono"
    /\ LET m == map_now_locked(sw, th[t].mono_ns)
       IN  /\ sw' = m.c
           /\ th' = [th EXCEPT ![t].pc = "mapped", ![t].raw = m.raw]
    /\ UNCHANGED <<mono, al, ss_done, ss_n, ss_aligned, ss_adj>>
    /\ UNCHANGED notss

\* swclock_now_ns: the relaxed load of last_out_ns and the comparison.
NowLoad(t) ==
    /\ th[t].pc = "mapped"
    /\ th' = [th EXCEPT ![t].pc = "loaded",
                        ![t].out = IF th[t].raw < sw.last_out_ns
                                   THEN sw.last_out_ns ELSE th[t].raw]
    /\ UNCHANGED <<sw, mono, al, ss_done, ss_n, ss_aligned, ss_adj>>
    /\ UNCHANGED notss

\* swclock_now_ns: the relaxed store of last_out_ns and the return.
NowStore(t) ==
    /\ th[t].pc = "loaded"
    /\ sw' = [sw EXCEPT !.last_out_ns = th[t].out]
    /\ th' = [th EXCEPT ![t].pc = "idle", ![t].returned = TRUE]
    /\ ss_done' = IF ss_done.valid /\ ss_done.v >= th[t].out
                  THEN ss_done ELSE [valid |-> TRUE, v |-> th[t].out]
    /\ UNCHANGED <<mono, al, ss_n, ss_aligned, ss_adj>>
    /\ UNCHANGED notss

SetFreq(freq_ppb) ==
    /\ ss_n.ops < MaxSSOps
    /\ ss_n.limit > 0
    /\ sw' = swclock_set_freq(sw, mono, freq_ppb)
    /\ ss_n' = [ss_n EXCEPT !.ops = @ + 1]
    /\ ss_adj' = NoAdjust
    /\ UNCHANGED <<mono, th, al, ss_done, ss_aligned>>
    /\ UNCHANGED notss

Adjust(offset_ns, slew_window_ns) ==
    /\ ss_n.ops < MaxSSOps
    /\ ss_n.limit > 0
    /\ sw' = swclock_adjust(sw, mono, offset_ns, slew_window_ns)
    /\ ss_n' = [ss_n EXCEPT !.ops = @ + 1]
    /\ ss_adj' = [NoAdjust EXCEPT
                     !.valid = TRUE, !.t0 = mono, !.out0 = sw'.ref_out_ns,
                     !.base_scale = sw'.base_scale, !.offset_ns = offset_ns,
                     !.window_ns = sw'.slew_window_left_ns]
    /\ UNCHANGED <<mono, th, al, ss_done, ss_aligned>>
    /\ UNCHANGED notss

SetBackstepGuard(guard_ns) ==
    /\ ss_n.ops < MaxSSOps
    /\ ss_n.limit > 0
    /\ sw' = [sw EXCEPT !.backstep_guard_ns = guard_ns]
    /\ ss_n' = [ss_n EXCEPT !.ops = @ + 1]
    /\ UNCHANGED <<mono, th, al, ss_done, ss_aligned, ss_adj>>
    /\ UNCHANGED notss

\* swclock_align_now: the locked rebaseline.
AlignLocked(target_now_ns) ==
    /\ al.pc = "idle"
    /\ ss_n.ops < MaxSSOps
    /\ ss_n.limit > 0
    /\ sw' = swclock_align_now(sw, mono, target_now_ns)
    /\ al' = [pc |-> "store", target |-> target_now_ns]
    /\ ss_n' = [ss_n EXCEPT !.ops = @ + 1]
    /\ ss_aligned' = TRUE
    /\ ss_adj' = [NoAdjust EXCEPT !.t0 = mono, !.out0 = target_now_ns,
                                  !.base_scale = sw'.base_scale,
                                  !.align = ss_n'.ops]
    /\ UNCHANGED <<mono, th, ss_done>>
    /\ UNCHANGED notss

\* swclock_align_now: the relaxed store of last_out_ns, after the unlock.
AlignStore ==
    /\ al.pc = "store"
    /\ sw' = [sw EXCEPT !.last_out_ns = al.target]
    /\ al' = [pc |-> "idle", target |-> 0]
    /\ ss_adj' = IF ss_adj.align > 0 THEN [ss_adj EXCEPT !.done = TRUE]
                  ELSE ss_adj
    /\ UNCHANGED <<mono, th, ss_done, ss_n, ss_aligned>>
    /\ UNCHANGED notss

SSNext ==
    \/ SSTick
    \/ \E t \in SSThreads : NowReadMono(t)
    \/ \E t \in SSThreads : NowMap(t)
    \/ \E t \in SSThreads : NowLoad(t)
    \/ \E t \in SSThreads : NowStore(t)
    \/ \E f \in FreqPpbs : SetFreq(f)
    \/ \E a \in AdjustRequests : Adjust(a[1], a[2])
    \/ \E g \in GuardValues : SetBackstepGuard(g)
    \/ \E g \in AlignTargets : AlignLocked(g)
    \/ AlignStore

---------------------------------------------------------------------------
(* sw_clock_ringbuf.c: the byte ring.  write_pos and read_pos are uint64_t  *)
(* counters that never wrap in a bounded run.                              *)

SIZEOF_UINT32 == 4

\* The four bytes of a uint32_t, little endian.
U32Bytes(v) ==
    <<v % 256, (v \div 256) % 256, (v \div 65536) % 256, (v \div 16777216) % 256>>

\* The uint32_t in four little-endian bytes.  A value of 2^31 or more is held
\* as 2^31 - 1: the code only compares it with sizes far below that.
U32Value(b) ==
    IF b[4] >= 128 THEN 2147483647
    ELSE b[1] + 256 * b[2] + 65536 * b[3] + 16777216 * b[4]

\* memcpy of bytes into the ring at pos, split in two at the end of the buffer.
RingCopyIn(buffer, pos, bytes) ==
    LET n          == Len(bytes)
        first_part == SWCLOCK_RINGBUF_SIZE - pos
    IN  [i \in 0..(SWCLOCK_RINGBUF_SIZE - 1) |->
            IF pos + n <= SWCLOCK_RINGBUF_SIZE
            THEN IF i >= pos /\ i < pos + n THEN bytes[i - pos + 1] ELSE buffer[i]
            ELSE IF i >= pos THEN bytes[i - pos + 1]
                 ELSE IF i < n - first_part THEN bytes[first_part + i + 1]
                      ELSE buffer[i]]

\* The copy out of the ring with the wrap-around forgotten: what lies past the
\* end of the buffer reads as zero.
RingCopyOut_NoWrap(buffer, pos, n) ==
    [k \in 1..n |->
        IF pos + k - 1 < SWCLOCK_RINGBUF_SIZE THEN buffer[pos + k - 1] ELSE 0]

\* memcpy of n bytes out of the ring at pos, split in two at the end of the buffer.
RingCopyOut(buffer, pos, n) ==
    LET first_part == SWCLOCK_RINGBUF_SIZE - pos
    IN  [k \in 1..n |->
            IF pos + n <= SWCLOCK_RINGBUF_SIZE THEN buffer[pos + k - 1]
            ELSE IF k <= first_part THEN buffer[pos + k - 1]
                 ELSE buffer[k - first_part - 1]]

swclock_ringbuf_init ==
    [buffer |-> [i \in 0..(SWCLOCK_RINGBUF_SIZE - 1) |-> 0],
     write_pos |-> 0, read_pos |-> 0, overrun_flag |-> FALSE,
     events_written |-> 0, events_read |-> 0, overrun_count |-> 0]

\* swclock_ringbuf_push refuses the call outright.
PushRefused(data) ==
    Len(data) = 0 \/ Len(data) > SWCLOCK_RINGBUF_SIZE \div 2

\* swclock_ringbuf_push without its test for room.
PushNoRoom_NeverFull(write_pos, read_pos, data) == FALSE

\* swclock_ringbuf_push finds no room, with the positions it loaded.
PushNoRoom(write_pos, read_pos, data) ==
    SWCLOCK_RINGBUF_SIZE - (write_pos - read_pos) < SIZEOF_UINT32 + Len(data)

\* The two copies of swclock_ringbuf_push: size header, then data.
PushCopy(buffer, write_pos, data) ==
    RingCopyIn(RingCopyIn(buffer, write_pos % SWCLOCK_RINGBUF_SIZE,
                          U32Bytes(Len(data))),
               (write_pos + SIZEOF_UINT32) % SWCLOCK_RINGBUF_SIZE, data)

\* The size header swclock_ringbuf_pop reads at read_pos.
PopSizeHeader(buffer, read_pos) ==
    U32Value(RingCopyOut(buffer, read_pos % SWCLOCK_RINGBUF_SIZE, SIZEOF_UINT32))

\* The data swclock_ringbuf_pop copies out after the size header.
PopData(buffer, read_pos, size_header) ==
    RingCopyOut(buffer, (read_pos + SIZEOF_UINT32) % SWCLOCK_RINGBUF_SIZE,
                size_header)

swclock_ringbuf_is_empty(r) == r.write_pos = r.read_pos

---------------------------------------------------------------------------
(* sw_clock.c: the event logger.  An event is the packed header            *)
(* (sequence_num, timestamp_ns, event_type, payload_size, reserved) and    *)
(* the payload.  The logger never looks inside a payload, and a payload    *)
(* struct holds C doubles: its bytes are stood for by a pattern that       *)
(* depends on the event type and the position of the byte.                 *)

SWCLOCK_EVENT_ADJTIME_CALL == 1

SWCLOCK_EVENT_ADJTIME_RETURN == 2

SWCLOCK_EVENT_PI_STEP == 18

SWCLOCK_EVENT_FREQUENCY_CLAMP == 48

SWCLOCK_EVENT_LOG_START == 240

SWCLOCK_EVENT_LOG_STOP == 241

\* sizeof of the packed structs of sw_clock_events.h
SIZEOF_EVENT_HEADER == 24

SIZEOF_ADJTIME_PAYLOAD == 28

SIZEOF_PI_STEP_PAYLOAD == 32

SIZEOF_FREQUENCY_CLAMP_PAYLOAD == 28

SWCLOCK_EVENT_MAX_SIZE == SIZEOF_EVENT_HEADER + 64

U16Bytes(v) == <<v % 256, (v \div 256) % 256>>

\* A uint64_t below 2^31, little endian, and back.
U64Bytes(v) == U32Bytes(v) \o <<0, 0, 0, 0>>

U64Value(b) == U32Value(b)

PayloadBytes(event_type, payload_size) ==
    [i \in 1..payload_size |-> (event_type + 7 * i) % 256]

\* The event_buffer swclock_log_event builds.
EventBytes(sequence_num, timestamp_ns, event_type, payload_size) ==
    U64Bytes(sequence_num) \o U64Bytes(timestamp_ns) \o U16Bytes(event_type)
        \o U16Bytes(payload_size) \o U32Bytes(0)
        \o PayloadBytes(event_type, payload_size)

\* header.sequence_num of a record of the event log.
SequenceNum(record) == U64Value(SubSeq(record, 1, 8))

\* The events swclock_pi_step logs during the poll that starts from c at
\* now_raw_ns, in order.
PollEvents(c, now_raw_ns) ==
    LET c1    == swclock_rebase_now_and_update(c, now_raw_ns)
        dt_ns == c1.ref_mono_raw - c.ref_mono_raw
        dt    == IF dt_ns > 0 THEN dt_ns ELSE SWCLOCK_POLL_NS
    IN  IF ~c1.pi_servo_enabled THEN <<>>
        ELSE (IF ClampPpm(PiOutput(c1, dt)) # PiOutput(c1, dt)
              THEN <<[type |-> SWCLOCK_EVENT_FREQUENCY_CLAMP,
                      size |-> SIZEOF_FREQUENCY_CLAMP_PAYLOAD]>>
              ELSE <<>>)
             \o <<[type |-> SWCLOCK_EVENT_PI_STEP, size |-> SIZEOF_PI_STEP_PAYLOAD]>>

\* Producer threads: 1 is the poll worker (and the only producer of the bare
\* ring), 2 is a thread calling swclock_adjtime.
ProdThreads == {1, 2}

\* Records pushed on the bare ring.
RingRecords == {PayloadBytes(3, 57), PayloadBytes(5, 60), PayloadBytes(9, 70)}

\* Requests of the adjtime caller while events are logged.
EvTxRequests ==
    {[Tx0 EXCEPT !.modes = ADJ_OFFSET + ADJ_MICRO, !.offset = 1200000]}

\* A producer thread outside swclock_log_event and swclock_ringbuf_push.
\* queue holds the events the thread has still to log in the call it is in,
\* after holds what the call does once they are logged.
IdleProd == [pc |-> "idle", queue |-> <<>>, after |-> "idle", data |-> <<>>,
             write_pos |-> 0, read_pos |-> 0, tx |-> Tx0]

IdleCons(logger, max_size) ==
    [pc |-> "idle", write_pos |-> 0, read_pos |-> 0, data |-> <<>>,
     logger |-> logger, max_size |-> max_size]

NoHist(limit) ==
    [built |-> {}, accepted |-> <<>>, delivered |-> <<>>, n_push |-> 0,
     limit |-> limit, bad_pops |-> 0, wrapped |-> {}]

\* The ring and the logger when nothing uses them: logging is off.
RBIdle ==
    /\ rb = swclock_ringbuf_init
    /\ prod = [t \in ProdThreads |-> IdleProd]
    /\ cons = IdleCons(FALSE, SWCLOCK_RINGBUF_SIZE \div 2)
    /\ ev = [event_logging_enabled |-> FALSE, event_sequence |-> 0,
             lock |-> "free", log |-> <<>>]
    /\ hist = NoHist(0)

\* The bare ring with one producer and one consumer.
RingInit ==
    /\ rb = swclock_ringbuf_init
    /\ prod = [t \in ProdThreads |-> IdleProd]
    /\ cons = IdleCons(FALSE, SWCLOCK_RINGBUF_SIZE \div 2)
    /\ ev = [event_logging_enabled |-> FALSE, event_sequence |-> 0,
             lock |-> "free", log |-> <<>>]
    /\ hist = NoHist(MaxPush)

\* The state swclock_start_event_log leaves: the logger thread runs and the
\* LOG_START event is in the ring.
EvInit ==
    LET start == EventBytes(0, RAW0, SWCLOCK_EVENT_LOG_START, 0)
    IN  /\ rb = [swclock_ringbuf_init EXCEPT
                    !.buffer = PushCopy(@, 0, start),
                    !.write_pos = SIZEOF_UINT32 + Len(start),
                    !.events_written = 1]
        /\ prod = [t \in ProdThreads |-> IdleProd]
        /\ cons = IdleCons(TRUE, SWCLOCK_EVENT_MAX_SIZE)
        /\ ev = [event_logging_enabled |-> TRUE, event_sequence |-> 1,
                 lock |-> "free", log |-> <<>>]
        /\ hist = [NoHist(0) EXCEPT !.built = {start}, !.accepted = <<start>>]

\* The thread's call of swclock_log_event or swclock_ringbuf_push has returned:
\* on to the next event of the call, or to what the call does after them.
AfterLog(p) ==
    IF p.queue # <<>> THEN [p EXCEPT !.pc = "fetch", !.data = <<>>]
    ELSE IF p.after = "adj" THEN [p EXCEPT !.pc = "adj", !.data = <<>>]
         ELSE IdleProd

Returned(t, e) ==
    /\ prod' = [prod EXCEPT ![t] = AfterLog(prod[t])]
    /\ ev' = IF prod[t].queue = <<>> /\ prod[t].after = "unlock"
             THEN [e EXCEPT !.lock = "free"] ELSE e

\* A caller of the bare ring starts swclock_ringbuf_push(rb, data, size).
RingPushCall(data) ==
    /\ prod[1].pc = "idle"
    /\ hist.n_push < hist.limit
    /\ prod' = [prod EXCEPT ![1] = [IdleProd EXCEPT !.pc = "load", !.data = data]]
    /\ hist' = [hist EXCEPT !.n_push = @ + 1]
    /\ UNCHANGED <<rb, cons, ev>>
    /\ UNCHANGED notrb

\* swclock_log_event up to the call of swclock_ringbuf_push: the test of
\* event_logging_enabled, the fetch-and-add of event_sequence, the timestamp.
LogFetch(t) ==
    /\ prod[t].pc = "fetch"
    /\ LET event_buffer == EventBytes(ev.event_sequence, now_raw,
                                      Head(prod[t].queue).type,
                                      Head(prod[t].queue).size)
       IN  IF ev.event_logging_enabled
           THEN /\ prod' = [prod EXCEPT ![t].pc = "load",
                                        ![t].queue = Tail(@),
                                        ![t].data = event_buffer]
                /\ ev' = [ev EXCEPT !.event_sequence = @ + 1]
                /\ hist' = [hist EXCEPT !.built = @ \cup {event_buffer}]
           ELSE /\ prod' = [prod EXCEPT
                      ![t] = AfterLog([prod[t] EXCEPT !.queue = Tail(@)])]
                /\ ev' = IF Len(prod[t].queue) = 1 /\ prod[t].after = "unlock"
                         THEN [ev EXCEPT !.lock = "free"] ELSE ev
                /\ UNCHANGED hist
    /\ UNCHANGED <<rb, cons>>
    /\ UNCHANGED notrb

\* swclock_ringbuf_push: the argument test, the loads of write_pos and
\* read_pos, the test for room.
PushLoad(t) ==
    /\ prod[t].pc = "load"
    /\ IF PushRefused(prod[t].data)
       THEN /\ Returned(t, ev)
            /\ UNCHANGED rb
       ELSE IF PushNoRoom(rb.write_pos, rb.read_pos, prod[t].data)
            THEN /\ rb' = [rb EXCEPT !.overrun_flag = TRUE, !.overrun_count = @ + 1]
                 /\ Returned(t, ev)
            ELSE /\ prod' = [prod EXCEPT ![t].pc = "write",
                                         ![t].write_pos = rb.write_pos,
                                         ![t].read_pos = rb.read_pos]
                 /\ UNCHANGED <<rb, ev>>
    /\ UNCHANGED <<cons, hist>>
    /\ UNCHANGED notrb

\* swclock_ringbuf_push: the copies of the size header and of the data.
PushWrite(t) ==
    /\ prod[t].pc = "write"
    /\ rb' = [rb EXCEPT !.buffer = PushCopy(@, prod[t].write_pos, prod[t].data)]
    /\ prod' = [prod EXCEPT ![t].pc = "publish"]
    /\ UNCHANGED <<cons, ev, hist>>
    /\ UNCHANGED notrb

\* swclock_ringbuf_push: the store of write_pos, and the return of true.
PushPublish(t) ==
    /\ prod[t].pc = "publish"
    /\ rb' = [rb EXCEPT
                !.write_pos = prod[t].write_pos + SIZEOF_UINT32 + Len(prod[t].data),
                !.events_written = @ + 1]
    /\ hist' = [hist EXCEPT !.accepted = Append(@, prod[t].data)]
    /\ Returned(t, ev)
    /\ UNCHANGED cons
    /\ UNCHANGED notrb

\* swclock_ringbuf_clear_overrun, as the logger thread calls it at the end of
\* each round of its loop.
swclock_ringbuf_clear_overrun(r) == [r EXCEPT !.overrun_flag = FALSE]

\* swclock_ringbuf_pop: the loads of write_pos and read_pos and the test for
\* an empty ring.  On an empty ring the call returns false (and the logger
\* thread sleeps, then clears the overrun flag).
PopLoad ==
    /\ cons.pc = "idle"
    /\ IF swclock_ringbuf_is_empty(rb)
       THEN /\ rb' = IF cons.logger THEN swclock_ringbuf_clear_overrun(rb) ELSE rb
            /\ UNCHANGED cons
       ELSE /\ cons' = [cons EXCEPT !.pc = "read", !.write_pos = rb.write_pos,
                                    !.read_pos = rb.read_pos]
            /\ UNCHANGED rb
    /\ UNCHANGED <<prod, ev, hist>>
    /\ UNCHANGED notrb

\* swclock_ringbuf_pop: the copy of the size header, its validation, the
\* copy of the data.  An invalid size returns false and leaves read_pos.
PopRead ==
    /\ cons.pc = "read"
    /\ LET size_header == PopSizeHeader(rb.buffer, cons.read_pos)
       IN  IF size_header = 0 \/ size_header > cons.max_size
           THEN /\ cons' = [cons EXCEPT !.pc = "idle"]
                /\ rb' = IF cons.logger THEN swclock_ringbuf_clear_overrun(rb) ELSE rb
                /\ hist' = [hist EXCEPT !.bad_pops = 1]
           ELSE /\ cons' = [cons EXCEPT
                       !.pc = "publish",
                       !.data = PopData(rb.buffer, cons.read_pos, size_header)]
                /\ UNCHANGED <<rb, hist>>
    /\ UNCHANGED <<prod, ev>>
    /\ UNCHANGED notrb

\* swclock_ringbuf_pop: the store of read_pos, and the return of true.
PopPublish ==
    /\ cons.pc = "publish"
    /\ rb' = [rb EXCEPT
                !.read_pos = cons.read_pos + SIZEOF_UINT32 + Len(cons.data),
                !.events_read = @ + 1]
    /\ cons' = [cons EXCEPT !.pc = IF cons.logger THEN "fwrite" ELSE "idle"]
    /\ hist' = [hist EXCEPT
          !.delivered = Append(@, cons.data),
          !.wrapped = @ \cup
              (IF (cons.read_pos % SWCLOCK_RINGBUF_SIZE) + SIZEOF_UINT32
                      > SWCLOCK_RINGBUF_SIZE
               THEN {"size"} ELSE {})
              \cup
              (IF ((cons.read_pos + SIZEOF_UINT32) % SWCLOCK_RINGBUF_SIZE)
                      + Len(cons.data) > SWCLOCK_RINGBUF_SIZE
               THEN {"data"} ELSE {})]
    /\ UNCHANGED <<prod, ev>>
    /\ UNCHANGED notrb

\* swclock_event_logger_thread_main after a successful pop: under the write
\* lock, fwrite of the record to the event log; then the overrun check.
LoggerWrite ==
    /\ cons.pc = "fwrite"
    /\ ev.lock = "free"
    /\ ev' = [ev EXCEPT !.log = Append(@, cons.data)]
    /\ rb' = swclock_ringbuf_clear_overrun(rb)
    /\ cons' = [cons EXCEPT !.pc = "idle", !.data = <<>>]
    /\ UNCHANGED <<prod, hist>>
    /\ UNCHANGED notrb

\* swclock_poll of the poll worker while events are logged: the write lock is
\* taken and the clock is updated; the events of swclock_pi_step are then
\* logged one by one, with the lock held.
EvPoll ==
    /\ prod[1].pc = "idle"
    /\ ev.lock = "free"
    /\ nwrites < wlimit
    /\ clk' = swclock_poll(clk, now_raw)
    /\ Written("poll", Tx0, NoTs, TRUE)
    /\ IF PollEvents(clk, now_raw) = <<>>
       THEN UNCHANGED <<prod, ev>>
       ELSE /\ prod' = [prod EXCEPT ![1] = [IdleProd EXCEPT
                            !.pc = "fetch",
                            !.queue = PollEvents(clk, now_raw),
                            !.after = "unlock"]]
            /\ ev' = [ev EXCEPT !.lock = "poll"]
    /\ UNCHANGED <<pi_pc, rb, cons, hist>>
    /\ UNCHANGED <<ssvars, lcvars, monvars, servovars, slewvars, strmvars, compatvars>>

\* swclock_adjtime while events are logged: ADJTIME_CALL is logged before the
\* write lock is taken.
EvAdjtimeCall(tx) ==
    /\ prod[2].pc = "idle"
    /\ nwrites < wlimit
    /\ HasBit(tx.modes, ADJ_OFFSET) =>
           Abs(swclock_rebase_now_and_update(clk, now_raw).remaining_phase_ns)
               <= PhaseCap - Abs(OffsetDelta(tx))
    /\ prod' = [prod EXCEPT ![2] = [IdleProd EXCEPT
                    !.pc = "fetch",
                    !.queue = <<[type |-> SWCLOCK_EVENT_ADJTIME_CALL,
                                 size |-> SIZEOF_ADJTIME_PAYLOAD]>>,
                    !.after = "adj",
                    !.tx = tx]]
    /\ nwrites' = nwrites + 1
    /\ UNCHANGED <<clk, now_raw, rd, pi_pc, last_op, nticks, nreads, wlimit, slew_only>>
    /\ UNCHANGED <<rb, cons, ev, hist>>
    /\ UNCHANGED <<ssvars, lcvars, monvars, servovars, slewvars, strmvars, compatvars>>

\* swclock_adjtime while events are logged: the locked body; ADJTIME_RETURN is
\* logged after the unlock.
EvAdjtimeLocked ==
    /\ prod[2].pc = "adj"
    /\ ev.lock = "free"
    /\ clk' = swclock_adjtime(clk, now_raw, prod[2].tx)
    /\ last_op' = OpRecord("adjtime", prod[2].tx, NoTs)
    /\ slew_only' = (slew_only /\ ~(HasBit(prod[2].tx.modes, ADJ_SETOFFSET)
                                    /\ SetOffsetDelta(prod[2].tx) < 0))
    /\ prod' = [prod EXCEPT ![2] = [IdleProd EXCEPT
                    !.pc = "fetch",
                    !.queue = <<[type |-> SWCLOCK_EVENT_ADJTIME_RETURN,
                                 size |-> SIZEOF_ADJTIME_PAYLOAD]>>,
                    !.after = "idle"]]
    /\ UNCHANGED <<now_raw, rd, pi_pc, nwrites, nticks, nreads, wlimit>>
    /\ UNCHANGED <<rb, cons, ev, hist>>
    /\ UNCHANGED <<ssvars, lcvars, monvars, servovars, slewvars, strmvars, compatvars>>

RingNext ==
    \/ \E data \in RingRecords : RingPushCall(data)
    \/ \E t \in ProdThreads : PushLoad(t)
    \/ \E t \in ProdThreads : PushWrite(t)
    \/ \E t \in ProdThreads : PushPublish(t)
    \/ PopLoad
    \/ PopRead
    \/ PopPublish

EvNext ==
    \/ Tick
    \/ EvPoll
    \/ \E tx \in EvTxRequests : EvAdjtimeCall(tx)
    \/ EvAdjtimeLocked
    \/ \E t \in ProdThreads : LogFetch(t)
    \/ \E t \in ProdThreads : PushLoad(t)
    \/ \E t \in ProdThreads : PushWrite(t)
    \/ \E t \in ProdThreads : PushPublish(t)
    \/ PopLoad
    \/ PopRead
    \/ PopPublish
    \/ LoggerWrite

---------------------------------------------------------------------------
(* sw_clock.c: the life of a clock.  swclock_create starts the poll worker, *)
(* swclock_start_event_log the event logger, swclock_enable_monitoring the  *)
(* monitor's compute thread; swclock_destroy tears them down.  The write    *)
(* lock is tracked only where the poll worker keeps it across a call        *)
(* (lock = "poll"); every other critical section is one step that needs     *)
(* the lock free.  queued counts the events waiting in the ring.            *)
(* monitor_arg is the c->monitor the poll worker has evaluated as argument  *)
(* of swclock_monitor_add_sample: "none", "null", "live" or "freed".        *)

LifeRingCap == 2

\* The clock swclock_create returns: created tells whether pthread_create
\* gave it a poll worker; servo_log, jsonld and logging are servo_log_enabled,
\* jsonld_logger != NULL and is_logging.
LifeCreated(created, servo_log, jsonld, logging) ==
    [poll_thread_running |-> created, stop_flag |-> FALSE,
     servo_log_enabled |-> servo_log, jsonld_logger |-> jsonld,
     is_logging |-> logging,
     event_logging_enabled |-> FALSE, event_logger_running |-> FALSE,
     monitoring_enabled |-> FALSE, lock |-> "free",
     poll |-> IF created THEN "sleep" ELSE "none",
     logger |-> "none", monitor |-> "none", destroy |-> "idle",
     queued |-> 0, freed |-> FALSE, uaf |-> FALSE,
     event_log_fp |-> FALSE, stop |-> "idle", stop_pushed |-> FALSE,
     owed |-> 0, monitor_arg |-> "none", monitor_uaf |-> FALSE]

LifeInit ==
    lc \in {LifeCreated(a, b, c, d) : a \in BOOLEAN, b \in BOOLEAN,
                                      c \in BOOLEAN, d \in BOOLEAN}

\* The life of a clock nobody follows.
LifeIdle == lc = LifeCreated(FALSE, FALSE, FALSE, FALSE)

\* swclock_start_event_log with a file that opens and a thread that starts;
\* its closing swclock_log_event queues LOG_START.
StartEventLog ==
    /\ lc.destroy = "idle"
    /\ lc.stop = "idle"
    /\ lc.lock = "free"
    /\ ~lc.event_logging_enabled
    /\ lc' = [lc EXCEPT !.event_logging_enabled = TRUE,
                        !.event_logger_running = TRUE,
                        !.event_log_fp = TRUE,
                        !.logger = "run", !.queued = 1]
    /\ UNCHANGED notlc

\* swclock_enable_monitoring(c, true) with a compute thread that starts.
EnableMonitoring ==
    /\ lc.destroy = "idle"
    /\ lc.lock = "free"
    /\ ~lc.monitoring_enabled
    /\ lc' = [lc EXCEPT !.monitoring_enabled = TRUE, !.monitor = "run"]
    /\ UNCHANGED notlc

\* swclock_enable_monitoring(c, false): under the write lock
\* swclock_monitor_destroy stops the compute thread and destroys the sample
\* ring, then the monitor is freed and c->monitor set to NULL.
DisableMonitoring ==
    /\ lc.destroy = "idle"
    /\ lc.lock = "free"
    /\ lc.monitoring_enabled
    /\ lc' = [lc EXCEPT !.monitoring_enabled = FALSE, !.monitor = "exited",
                        !.monitor_arg = IF @ = "live" THEN "freed" ELSE @]
    /\ UNCHANGED notlc

\* swclock_gettime called by the thread that holds the write lock: its
\* pthread_rwlock_rdlock is undefined; the thread blocks on itself for ever,
\* or the rdlock fails, the snapshot is taken and the unlock of swclock_gettime
\* gives the write lock away.
GettimeUnderWrlock(l, after) ==
    { [l EXCEPT !.poll = "blocked"],
      [l EXCEPT !.poll = after, !.lock = "free"] }

\* One step of swclock_poll_thread_main.  A step on a freed clock is a use
\* after free.
PollThreadStep ==
    /\ lc.poll \in {"sleep", "poll", "servo_log", "log_gettime", "jsonld",
                    "jsonld_gettime", "monitor", "monitor_gettime",
                    "monitor_arg", "monitor_add"}
    /\ lc.poll \in {"sleep", "poll", "servo_log", "jsonld", "monitor_gettime"}
           => lc.lock = "free"
    /\ LET l == [lc EXCEPT !.uaf = @ \/ lc.freed]
       IN  CASE lc.poll = "sleep" ->
                  lc' = [l EXCEPT !.poll = IF lc.stop_flag THEN "exited"
                                                           ELSE "poll"]
             [] lc.poll = "poll" ->
                  lc' = [l EXCEPT !.poll = "servo_log",
                                  !.queued = IF lc.event_logging_enabled
                                                /\ @ < LifeRingCap
                                             THEN @ + 1 ELSE @]
             [] lc.poll = "servo_log" ->
                  lc' = IF lc.servo_log_enabled /\ lc.is_logging
                           /\ lc.jsonld_logger
                        THEN [l EXCEPT !.poll = "log_gettime", !.lock = "poll"]
                        ELSE [l EXCEPT !.poll = "jsonld"]
             [] lc.poll = "log_gettime" ->
                  lc' \in GettimeUnderWrlock(l, "jsonld")
             [] lc.poll = "jsonld" ->
                  lc' = IF lc.jsonld_logger /\ lc.servo_log_enabled
                        THEN [l EXCEPT !.poll = "jsonld_gettime",
                                       !.lock = "poll"]
                        ELSE [l EXCEPT !.poll = "monitor"]
             [] lc.poll = "jsonld_gettime" ->
                  lc' \in GettimeUnderWrlock(l, "monitor")
             [] lc.poll = "monitor" ->
                  lc' = [l EXCEPT !.poll = IF lc.monitoring_enabled
                                           THEN "monitor_gettime"
                                           ELSE "sleep"]
             [] lc.poll = "monitor_gettime" ->
                  lc' = [l EXCEPT !.poll = "monitor_arg"]
             [] lc.poll = "monitor_arg" ->
                  lc' = [l EXCEPT !.poll = "monitor_add",
                                  !.monitor_arg = IF lc.monitoring_enabled
                                                  THEN "live" ELSE "null"]
             [] lc.poll = "monitor_add" ->
                  lc' = [l EXCEPT !.poll = "sleep",
                                  !.monitor_arg = "none",
                                  !.monitor_uaf = @ \/ lc.monitor_arg = "freed"]
    /\ UNCHANGED notlc

\* One turn of the loop of swclock_event_logger_thread_main: leave when the
\* running flag is down and the ring is empty, else pop and write one event
\* under the write lock.  A turn on a freed clock is a use after free.
LoggerThreadStep ==
    /\ lc.logger = "run"
    /\ lc.queued > 0 => lc.lock = "free"
    /\ lc.queued > 0 \/ ~lc.event_logger_running \/ lc.freed
    /\ lc' = [lc EXCEPT !.uaf = @ \/ lc.freed,
                        !.queued = IF @ > 0 THEN @ - 1 ELSE @,
                        !.owed = IF @ > 0 /\ lc.queued > 0 /\ lc.event_log_fp
                                 THEN @ - 1 ELSE @,
                        !.logger = IF lc.event_logger_running \/ lc.queued > 0
                                   THEN "run" ELSE "exited"]
    /\ UNCHANGED notlc

\* One step of swclock_destroy.
DestroyStep ==
    /\ lc.destroy \in {"idle", "stop", "join_poll", "stop_log", "join_logger",
                       "monitor", "free"}
    /\ lc.destroy \in {"stop", "join_poll", "stop_log", "join_logger", "monitor"}
           => lc.lock = "free"
    /\ CASE lc.destroy = "idle" ->
              /\ lc.stop \in {"idle", "done"}
              /\ lc' = [lc EXCEPT !.destroy = IF lc.poll_thread_running
                                              THEN "stop" ELSE "free"]
         [] lc.destroy = "stop" ->
              lc' = [lc EXCEPT !.stop_flag = TRUE, !.destroy = "join_poll"]
         [] lc.destroy = "join_poll" ->
              /\ lc.poll = "exited"
              /\ lc' = [lc EXCEPT !.is_logging = FALSE, !.destroy = "stop_log"]
         [] lc.destroy = "stop_log" ->
              lc' = IF lc.event_logging_enabled
                    THEN [lc EXCEPT !.event_logger_running = FALSE,
                                    !.queued = IF @ < LifeRingCap
                                               THEN @ + 1 ELSE @,
                                    !.destroy = "join_logger"]
                    ELSE [lc EXCEPT !.destroy = "monitor"]
         [] lc.destroy = "join_logger" ->
              /\ lc.logger = "exited"
              /\ lc' = [lc EXCEPT !.event_logging_enabled = FALSE,
                                  !.event_log_fp = FALSE,
                                  !.destroy = "monitor"]
         [] lc.destroy = "monitor" ->
              lc' = [lc EXCEPT !.monitor = IF lc.monitoring_enabled
                                           THEN "exited" ELSE @,
                               !.monitoring_enabled = FALSE,
                               !.jsonld_logger = FALSE,
                               !.destroy = "free"]
         [] lc.destroy = "free" ->
              lc' = [lc EXCEPT !.freed = TRUE, !.destroy = "done"]
    /\ UNCHANGED notlc

\* One step of swclock_stop_event_log called by a user of the clock: the test
\* of event_logging_enabled under the lock, swclock_log_event(LOG_STOP)
\* outside it (a push the full ring refuses), the clearing of
\* event_logger_running, pthread_join, then fclose.  owed counts the records
\* of the ring at the call, LOG_STOP included, not yet written to the file.
StopEventLogStep ==
    /\ lc.destroy = "idle"
    /\ lc.stop \in {"idle", "log_stop", "flag", "join", "close"}
    /\ lc.stop \in {"idle", "flag", "close"} => lc.lock = "free"
    /\ CASE lc.stop = "idle" ->
              /\ lc.event_logging_enabled
              /\ lc' = [lc EXCEPT !.stop = "log_stop", !.owed = lc.queued]
         [] lc.stop = "log_stop" ->
              lc' = IF lc.queued < LifeRingCap
                    THEN [lc EXCEPT !.queued = @ + 1, !.owed = @ + 1,
                                    !.stop_pushed = TRUE, !.stop = "flag"]
                    ELSE [lc EXCEPT !.stop = "flag"]
         [] lc.stop = "flag" ->
              lc' = [lc EXCEPT !.event_logger_running = FALSE,
                               !.stop = "join"]
         [] lc.stop = "join" ->
              /\ lc.logger = "exited"
              /\ lc' = [lc EXCEPT !.stop = "close"]
         [] lc.stop = "close" ->
              lc' = [lc EXCEPT !.event_log_fp = FALSE,
                               !.event_logging_enabled = FALSE,
                               !.stop = "done"]
    /\ UNCHANGED notlc

LifeNext ==
    \/ StartEventLog
    \/ StopEventLogStep
    \/ EnableMonitoring
    \/ DisableMonitoring
    \/ PollThreadStep
    \/ LoggerThreadStep
    \/ DestroyStep

---------------------------------------------------------------------------
(* pi_servo.c.  Offsets (z, x_offset) are in microseconds, dt and t_locked  *)
(* in milliseconds, dt_ewma in microseconds, integ in 1e-9 s*s, x_drift and *)
(* the control effort in 1e-12 s/s (a thousandth of a ppb), the gains in    *)
(* thousandths.                                                             *)

PTPD_PI_KP == 100

PTPD_PI_KI == 1

PTPD_PI_DEADZONE_US == 20

\* 50 ppb and 200 ppb, in 1e-12 s/s.
PTPD_PI_MAX_PPB_STEP == 50000

PTPD_PI_MAX_PPB_ABS == 200000

\* 15 s, in ms.
PTPD_PI_LOCK_TAU_S == 15000

\* 0.6 and 0.998 as fractions.
PTPD_PI_LOCK_SCALE == <<6, 10>>

PTPD_PI_HOLD_DECAY == <<998, 1000>>

\* 0.25 s, in 1e-9 s*s.
PTPD_PI_INT_CLAMP_S == 250000000

clampd(v, lo, hi) == IF v < lo THEN lo ELSE IF v > hi THEN hi ELSE v

\* v * num / den truncated toward zero, the product never formed whole.
ScaleFrac(v, num, den) == CDiv(v, den) * num + CDiv(CMod(v, den) * num, den)

\* calloc'ed by pi_create.
pi_create ==
    [kp |-> 0, ki |-> 0, x_offset |-> 0, x_drift |-> 0, integ |-> 0,
     t_locked |-> 0, initialized |-> FALSE, dt_ewma |-> 0,
     n |-> 0, last_op |-> "create"]

pi_init(s, kp, ki) ==
    [s EXCEPT !.kp = kp, !.ki = ki, !.x_offset = 0, !.x_drift = 0,
              !.integ = 0, !.t_locked = 0, !.dt_ewma = 10000,
              !.initialized = FALSE]

pi_init_default_ptpd(s) == pi_init(s, PTPD_PI_KP, PTPD_PI_KI)

\* pi_update(s, z, dt).
pi_update(s, z, dt_in) ==
    LET dt == IF dt_in <= 0 THEN 1 ELSE dt_in
    IN  IF ~s.initialized
        THEN [s EXCEPT !.x_offset = z, !.x_drift = 0, !.integ = 0,
                       !.t_locked = 0, !.dt_ewma = dt * 1000,
                       !.initialized = TRUE]
        ELSE
        LET dt_ewma  == (98 * s.dt_ewma + 2 * dt * 1000) \div 100
            holdover == 10 * dt * 1000 > 18 * dt_ewma
            dead     == Abs(z) < PTPD_PI_DEADZONE_US
            e        == IF dead THEN 0 ELSE z
            t_locked == IF dead THEN s.t_locked + dt ELSE 0
            locked   == t_locked > PTPD_PI_LOCK_TAU_S
            lock(v)  == IF locked
                        THEN ScaleFrac(v, PTPD_PI_LOCK_SCALE[1],
                                       PTPD_PI_LOCK_SCALE[2])
                        ELSE v
            integ1   == clampd(s.integ + e * dt, -PTPD_PI_INT_CLAMP_S,
                               PTPD_PI_INT_CLAMP_S)
            u        == lock(s.kp * dt * e)
                        + lock(s.ki * ScaleFrac(integ1, dt, 1000))
            step     == clampd(u, -PTPD_PI_MAX_PPB_STEP, PTPD_PI_MAX_PPB_STEP)
            sat_err  == u - step
            bleed02  == IF locked
                        THEN ScaleFrac(ScaleFrac(sat_err, 200, s.ki * dt),
                                       PTPD_PI_LOCK_SCALE[2],
                                       PTPD_PI_LOCK_SCALE[1])
                        ELSE ScaleFrac(sat_err, 200, s.ki * dt)
            integ2   == IF sat_err # 0 /\ s.ki > 0
                        THEN clampd(integ1 - bleed02, -PTPD_PI_INT_CLAMP_S,
                                    PTPD_PI_INT_CLAMP_S)
                        ELSE integ1
            clamped  == clampd(s.x_drift + step, -PTPD_PI_MAX_PPB_ABS,
                               PTPD_PI_MAX_PPB_ABS)
            drift    == IF holdover
                        THEN ScaleFrac(clamped, PTPD_PI_HOLD_DECAY[1],
                                       PTPD_PI_HOLD_DECAY[2])
                        ELSE clamped
        IN  [s EXCEPT !.dt_ewma = dt_ewma, !.t_locked = t_locked,
                      !.integ = integ2, !.x_drift = drift, !.x_offset = z]

\* The measured offsets (us) and the intervals (ms) handed to pi_update.
PiOffsets == {-1000, 0, 30, 1000}

PiIntervals == {10, 1000, 4000}

PiCreate == pis = pi_create

PiInitDefault ==
    /\ pis.last_op = "create"
    /\ pis' = [pi_init_default_ptpd(pis) EXCEPT !.last_op = "init"]
    /\ UNCHANGED est
    /\ UNCHANGED notservo

PiUpdate(z, dt) ==
    /\ pis.last_op # "create"
    /\ pis.n < MaxPiUpdates
    /\ pis' = [pi_update(pis, z, dt) EXCEPT !.n = @ + 1, !.last_op = "update"]
    /\ UNCHANGED est
    /\ UNCHANGED notservo

PiNext ==
    \/ PiInitDefault
    \/ \E z \in PiOffsets, dt \in PiIntervals : PiUpdate(z, dt)

---------------------------------------------------------------------------
(* kf_servo.c, akf_servo.c, ekf_servo.c, aekf_servo.c: the life of a        *)
(* two-state estimator up to its first sample.  Q, R and baseQ are in       *)
(* 1e-12, alpha and beta in hundredths, the offset x[0] in microseconds,    *)
(* dt and dt_ewma in milliseconds.  Of the fields that every *_init sets    *)
(* to a constant the struct keeps x, P, dt, dt_ewma, z_prev, updateCount    *)
(* and initialized; the extended filters have no R_adapt, alpha, beta and   *)
(* baseQ of their own where the source has none.                            *)

EstKinds == {"KF", "AKF", "EKF", "AEKF"}

\* calloc.
EstZero(kind) ==
    [kind |-> kind, x |-> <<0, 0>>, P |-> <<0, 0, 0, 0>>, Q00 |-> 0,
     Q11 |-> 0, R |-> 0, R_adapt |-> 0, baseQ |-> 0, alpha |-> 0, beta |-> 0,
     dt |-> 0, dt_ewma |-> 0, z_prev |-> 0, updateCount |-> 0,
     initialized |-> FALSE, nops |-> 0, last_op |-> "create"]

kf_create ==
    [EstZero("KF") EXCEPT !.R = 1000000, !.R_adapt = 1000000, !.Q00 = 1000,
                          !.Q11 = 100, !.baseQ = 100, !.alpha = 95,
                          !.beta = 99, !.P = <<1000, 0, 0, 100>>]

akf_create ==
    [EstZero("AKF") EXCEPT !.R = 1000000, !.R_adapt = 1000000, !.Q00 = 1000,
                           !.Q11 = 100, !.baseQ = 100, !.alpha = 95,
                           !.beta = 98, !.P = <<1000, 0, 0, 100>>,
                           !.dt_ewma = 10]

ekf_create ==
    [EstZero("EKF") EXCEPT !.R = 1000000, !.Q00 = 1000, !.Q11 = 100,
                           !.P = <<1000, 0, 0, 100>>, !.dt_ewma = 10]

aekf_create ==
    [EstZero("AEKF") EXCEPT !.R = 1000000, !.R_adapt = 1000000, !.Q00 = 1000,
                            !.Q11 = 100, !.baseQ = 100, !.alpha = 95,
                            !.beta = 98, !.P = <<1000, 0, 0, 100>>,
                            !.dt_ewma = 10]

kf_init(kf, processNoise, measurementNoise) ==
    [kf EXCEPT !.x = <<0, 0>>, !.P = <<1000, 0, 0, 100>>,
               !.Q00 = processNoise, !.Q11 = processNoise \div 10,
               !.R = measurementNoise, !.R_adapt = measurementNoise,
               !.alpha = 95, !.beta = 99, !.baseQ = processNoise \div 10,
               !.dt = 1000, !.updateCount = 0, !.initialized = FALSE]

akf_init(a, q, r) ==
    [a EXCEPT !.x = <<0, 0>>, !.P = <<1000, 0, 0, 100>>,
              !.Q00 = q, !.Q11 = q \div 10, !.R = r, !.R_adapt = r,
              !.alpha = 95, !.beta = 98, !.z_prev = 0,
              !.dt = 1000, !.updateCount = 0, !.initialized = FALSE,
              !.dt_ewma = 10]

ekf_init(e, q, r) ==
    [e EXCEPT !.x = <<0, 0>>, !.P = <<1000, 0, 0, 100>>,
              !.Q00 = q, !.Q11 = q \div 10, !.R = r,
              !.dt = 1000, !.updateCount = 0, !.initialized = FALSE,
              !.dt_ewma = 10]

aekf_init(e, q, r) ==
    [e EXCEPT !.x = <<0, 0>>, !.P = <<1000, 0, 0, 100>>,
              !.Q00 = q, !.Q11 = q \div 10, !.R = r, !.R_adapt = r,
              !.dt = 1000, !.updateCount = 0, !.initialized = FALSE,
              !.z_prev = 0, !.dt_ewma = 10]

kf_reset(kf) ==
    [kf_init(kf, kf.Q00, kf.R) EXCEPT !.Q11 = kf.Q11, !.baseQ = kf.baseQ]

akf_reset(a) ==
    [akf_init(a, a.Q00, a.R) EXCEPT !.Q11 = a.Q11, !.baseQ = a.baseQ]

ekf_reset(e) ==
    [ekf_init(e, e.Q00, e.R) EXCEPT !.Q11 = e.Q11]

aekf_reset(e) ==
    [aekf_init(e, e.Q00, e.R) EXCEPT !.Q11 = e.Q11, !.baseQ = e.baseQ]

\* *_set_noise: Q00, Q11 and R, and R_adapt kept within [0.01 R, top R].
set_noise(e, q0, q1, r, top) ==
    [e EXCEPT !.Q00 = q0, !.Q11 = q1, !.R = r,
              !.R_adapt = IF e.kind = "EKF" THEN @
                          ELSE clampd(@, r \div 100, top * r)]

\* *_set_adaptation.
set_adaptation(e, baseQ, alpha, beta) ==
    [e EXCEPT !.baseQ = baseQ, !.alpha = alpha, !.beta = beta]

\* *_update on a filter that is not initialised: the first sample.
first_update(e, z, dt) ==
    [e EXCEPT !.dt = dt, !.updateCount = @ + 1, !.x = <<z, 0>>,
              !.initialized = TRUE,
              !.z_prev = IF e.kind = "KF" THEN @ ELSE z,
              !.dt_ewma = IF e.kind = "KF" THEN @
                          ELSE (98 * (IF dt > 0 THEN dt ELSE 10)
                                + 2 * (IF dt > 0 THEN dt ELSE 10)) \div 100]

EstCreate == est \in {kf_create, akf_create, ekf_create, aekf_create}

\* Another call on the estimator.
EstOp(op, e) == est' = [e EXCEPT !.nops = est.nops + 1, !.last_op = op]

EstInit(q, r) ==
    /\ est.nops < MaxEstOps
    /\ EstOp("init", CASE est.kind = "KF"   -> kf_init(est, q, r)
                       [] est.kind = "AKF"  -> akf_init(est, q, r)
                       [] est.kind = "EKF"  -> ekf_init(est, q, r)
                       [] est.kind = "AEKF" -> aekf_init(est, q, r))
    /\ UNCHANGED pis
    /\ UNCHANGED notservo

EstReset ==
    /\ est.nops < MaxEstOps
    /\ EstOp("reset", CASE est.kind = "KF"   -> kf_reset(est)
                        [] est.kind = "AKF"  -> akf_reset(est)
                        [] est.kind = "EKF"  -> ekf_reset(est)
                        [] est.kind = "AEKF" -> aekf_reset(est))
    /\ UNCHANGED pis
    /\ UNCHANGED notservo

EstSetNoise(q0, q1, r) ==
    /\ est.nops < MaxEstOps
    /\ EstOp("set_noise",
             set_noise(est, q0, q1, r, IF est.kind = "KF" THEN 20 ELSE 30))
    /\ UNCHANGED pis
    /\ UNCHANGED notservo

EstSetAdaptation(baseQ, alpha, beta) ==
    /\ est.nops < MaxEstOps
    /\ est.kind # "EKF"
    /\ EstOp("set_adaptation", set_adaptation(est, baseQ, alpha, beta))
    /\ UNCHANGED pis
    /\ UNCHANGED notservo

EstFirstUpdate(z, dt) ==
    /\ est.nops < MaxEstOps
    /\ ~est.initialized
    /\ EstOp("update", first_update(est, z, dt))
    /\ UNCHANGED pis
    /\ UNCHANGED notservo

EstNext ==
    \/ \E q \in {1000, 20}, r \in {1000000, 500} : EstInit(q, r)
    \/ EstReset
    \/ EstSetNoise(2000, 300, 4000000)
    \/ EstSetAdaptation(50, 90, 90)
    \/ \E z \in {40000, -7} : EstFirstUpdate(z, 10)

\* No servo in use.
ServoIdle == PiCreate /\ est = kf_create

\* No event log started.
NoStream ==
    [event_logging_enabled |-> FALSE, event_logger_running |-> FALSE,
     event_log_fp |-> FALSE, event_sequence |-> 0, ring |-> <<>>,
     file |-> <<>>, user |-> "idle", user_seq |-> 0, other |-> "idle",
     other_seq |-> 0, n_other |-> 0, logger |-> "none"]

StreamIdle == es = NoStream

\* No call of sw_adjtime made yet.
NoCompat == [called |-> FALSE]

CompatIdle == ca = NoCompat

\* No ADJ_OFFSET request made yet.
NoSlew == [adjusted |-> FALSE, d |-> 0, polls |-> 0, starved |-> 0]

NoAdvance == [extra |-> 0, last |-> 0, late |-> 0]

SlewIdle == slw = NoSlew /\ sle = NoAdvance

---------------------------------------------------------------------------
(* sw_clock_monitor.c: the real-time monitor.  Time-error samples go to a   *)
(* circular buffer; compute_metrics copies them newest first and takes the  *)
(* MTIE and TDEV figures from them; the compute thread stores each snapshot *)
(* in latest_metrics and checks the thresholds; swclock_monitor_get_metrics *)
(* returns the stored snapshot while it is less than a second old, else a   *)
(* fresh one.  Observation intervals are in tenths of a second and the      *)
(* sample rate in tenths of a hertz.  A TDEV value, the square root of      *)
(* sum_sq / (6 n), is kept as the pair <<sum_sq, n>>.  The statistics that  *)
(* are only reported (window_duration_s, mean, std, percentiles) are left   *)
(* out of the snapshot, and with them the timestamp_ns of a sample, which   *)
(* only window_duration_s reads.                                            *)

\* The time errors the poll worker may sample, in ns.
MonTE == {-400, 250}

\* What the word after the copied samples of compute_metrics' malloc'ed
\* array may hold.
StaleTE == {0, 900}

\* The sample rates the monitor may be initialised with (0.1 Hz and 1 Hz).
MonRates == {10}

EmptySample == [te_ns |-> 0]

\* The thresholds swclock_monitor_init sets: alerts off.
DefaultThresholds ==
    [enabled |-> FALSE, mtie_1s_threshold_ns |-> 100000,
     mtie_10s_threshold_ns |-> 200000, tdev_1s_threshold_ns |-> 40000,
     max_te_threshold_ns |-> 300000, alert_callback |-> FALSE]

\* A configuration a user hands to swclock_monitor_set_thresholds.
UserThresholds ==
    [enabled |-> TRUE, mtie_1s_threshold_ns |-> 100,
     mtie_10s_threshold_ns |-> 200, tdev_1s_threshold_ns |-> 40,
     max_te_threshold_ns |-> 300, alert_callback |-> TRUE]

ZeroTdev == <<0, 0>>

\* swclock_metrics_snapshot_t after memset / = {0}: the fields in the order
\* of the struct, the leading ones in head, the MTIE and TDEV ones in tail.
\* comp numbers the computation the fields come from.
ZeroMetrics ==
    [head |-> [comp |-> 0, timestamp_ns |-> 0, sample_count |-> 0,
               max_te_ns |-> 0, min_te_ns |-> 0],
     tail |-> [comp |-> 0, mtie_1s_ns |-> 0, mtie_10s_ns |-> 0,
               mtie_30s_ns |-> 0, mtie_60s_ns |-> 0,
               tdev_0_1s_ns |-> ZeroTdev, tdev_1s_ns |-> ZeroTdev,
               tdev_10s_ns |-> ZeroTdev]]

swclock_monitor_init(sample_rate_dhz) ==
    [samples |-> [i \in 0..(SWCLOCK_MONITOR_BUFFER_SIZE - 1) |-> EmptySample],
     capacity |-> SWCLOCK_MONITOR_BUFFER_SIZE, head |-> 0, count |-> 0,
     sample_rate_dhz |-> sample_rate_dhz,
     latest_metrics |-> ZeroMetrics, thresholds |-> DefaultThresholds,
     last_compute_time_ns |-> 0, compute_count |-> 0,
     now_ns |-> MonTickNs, nadds |-> 0]

circular_buffer_add(m, timestamp_ns, te_ns) ==
    [m EXCEPT !.samples[m.head] = [te_ns |-> te_ns],
              !.head = (m.head + 1) % m.capacity,
              !.count = IF m.count < m.capacity THEN m.count + 1 ELSE m.count]

\* The copy loop starting one slot too far back.
circular_buffer_get_samples_SkipsNewest(m) ==
    [i \in 1..m.count |->
        m.samples[(m.head + 2 * m.capacity - i - 1) % m.capacity].te_ns]

\* circular_buffer_get_samples: the te_ns of the samples, newest first.
circular_buffer_get_samples(m) ==
    [i \in 1..m.count |->
        m.samples[(m.head + m.capacity - i) % m.capacity].te_ns]

\* samples[k] of compute_metrics' array: a copied sample below count, and
\* what the allocation held above it.
SampleAt(samples, stale, k) ==
    IF k < Len(samples) THEN samples[k + 1] ELSE stale

\* tau_samples = (uint32_t)(tau_s / sample_dt_s).
TauSamples(tau_ds, sample_rate_dhz) == (tau_ds * sample_rate_dhz) \div 100

\* compute_te_statistics: max_val and min_val.
MaxTE(samples) ==
    CHOOSE x \in {samples[i] : i \in 1..Len(samples)} :
        \A i \in 1..Len(samples) : samples[i] <= x

MinTE(samples) ==
    CHOOSE x \in {samples[i] : i \in 1..Len(samples)} :
        \A i \in 1..Len(samples) : x <= samples[i]

\* compute_mtie_tau: the greatest |samples[i + tau] - samples[i]| for i from
\* 0 to count - tau, both included.
compute_mtie_tau(samples, stale, tau_samples) ==
    LET count == Len(samples)
        diff(i) == Abs(SampleAt(samples, stale, i + tau_samples)
                       - SampleAt(samples, stale, i))
        diffs == {diff(i) : i \in 0..(count - tau_samples)}
    IN  IF tau_samples >= count \/ tau_samples = 0
        THEN 0
        ELSE CHOOSE d \in diffs : \A e \in diffs : e <= d

RECURSIVE SumSq(_, _, _, _)
SumSq(samples, stale, tau_samples, i) ==
    IF i < 0 THEN 0
    ELSE LET second_diff ==
                 SampleAt(samples, stale, i + 2 * tau_samples)
                 - 2 * SampleAt(samples, stale, i + tau_samples)
                 + SampleAt(samples, stale, i)
         IN  second_diff * second_diff
             + SumSq(samples, stale, tau_samples, i - 1)

\* compute_tdev_tau: sum_sq and n_estimates of sqrt(sum_sq / (6 n)).
compute_tdev_tau(samples, stale, tau_samples) ==
    LET count == Len(samples)
    IN  IF tau_samples * 3 >= count \/ tau_samples = 0
        THEN ZeroTdev
        ELSE <<SumSq(samples, stale, tau_samples, count - 2 * tau_samples),
               count - 2 * tau_samples + 1>>

\* The indices of samples[] the loop of compute_mtie_tau reads.
MtieIndices(count, tau_samples) ==
    IF tau_samples >= count \/ tau_samples = 0
    THEN {}
    ELSE UNION {{i, i + tau_samples} : i \in 0..(count - tau_samples)}

\* The indices of samples[] the loop of compute_tdev_tau reads.
TdevIndices(count, tau_samples) ==
    IF tau_samples * 3 >= count \/ tau_samples = 0
    THEN {}
    ELSE UNION {{i, i + tau_samples, i + 2 * tau_samples} :
                   i \in 0..(count - 2 * tau_samples)}

\* The observation intervals of compute_metrics, in tenths of a second.
MtieTaus == {10, 100, 300, 600}

TdevTaus == {1, 10, 100}

\* compute_metrics on at least MinSamples samples, as computation comp.
compute_metrics(m, stale, comp) ==
    LET samples == circular_buffer_get_samples(m)
        rate    == m.sample_rate_dhz
    IN  [head |-> [comp |-> comp, timestamp_ns |-> m.now_ns,
                   sample_count |-> Len(samples),
                   max_te_ns |-> MaxTE(samples),
                   min_te_ns |-> MinTE(samples)],
         tail |-> [comp |-> comp,
                   mtie_1s_ns |->
                       compute_mtie_tau(samples, stale, TauSamples(10, rate)),
                   mtie_10s_ns |->
                       compute_mtie_tau(samples, stale, TauSamples(100, rate)),
                   mtie_30s_ns |->
                       compute_mtie_tau(samples, stale, TauSamples(300, rate)),
                   mtie_60s_ns |->
                       compute_mtie_tau(samples, stale, TauSamples(600, rate)),
                   tdev_0_1s_ns |->
                       compute_tdev_tau(samples, stale, TauSamples(1, rate)),
                   tdev_1s_ns |->
                       compute_tdev_tau(samples, stale, TauSamples(10, rate)),
                   tdev_10s_ns |->
                       compute_tdev_tau(samples, stale, TauSamples(100, rate))]]

\* tdev > threshold for the TDEV sqrt(sum_sq / (6 n)).
TdevAbove(tdev, threshold) ==
    tdev[2] > 0 /\ tdev[1] > threshold * threshold * 6 * tdev[2]

\* check_thresholds: the metrics the alert callback is called for.
check_thresholds(cfg, metrics) ==
    IF ~cfg.enabled \/ ~cfg.alert_callback
    THEN {}
    ELSE {a \in {"MTIE(1s)", "MTIE(10s)", "TDEV(1s)", "Max TE"} :
            \/ a = "MTIE(1s)"
               /\ metrics.tail.mtie_1s_ns > cfg.mtie_1s_threshold_ns
            \/ a = "MTIE(10s)"
               /\ metrics.tail.mtie_10s_ns > cfg.mtie_10s_threshold_ns
            \/ a = "TDEV(1s)"
               /\ TdevAbove(metrics.tail.tdev_1s_ns, cfg.tdev_1s_threshold_ns)
            \/ a = "Max TE"
               /\ Abs(metrics.head.max_te_ns) > cfg.max_te_threshold_ns}

\* No computation yet.
NoComputation ==
    [done |-> FALSE, by |-> "none", metrics |-> ZeroMetrics, samples |-> <<>>,
     thresholds |-> DefaultThresholds, alerts |-> {}]

\* The fields of a snapshot without the number of their computation.
Fields(metrics) ==
    [metrics EXCEPT !.head.comp = 0, !.tail.comp = 0]

\* The record of a computation: who ran it, its metrics, the samples and the
\* thresholds it ran with, the alerts raised so far, and whether it is over.
Computation(by, metrics, m, alerts, done) ==
    [done |-> done, by |-> by, metrics |-> metrics,
     samples |-> circular_buffer_get_samples(m),
     thresholds |-> m.thresholds, alerts |-> alerts]

ThreadsIdle ==
    [ct |-> [pc |-> "sleep", metrics |-> ZeroMetrics],
     rd |-> [pc |-> "idle", snapshot |-> ZeroMetrics, rc |-> 0],
     ncomp |-> 0, nreads |-> 0, last |-> NoComputation, computed |-> {}]

MonInit ==
    /\ mon \in {swclock_monitor_init(r) : r \in MonRates}
    /\ mth = ThreadsIdle

\* A clock without monitoring.
MonIdle ==
    /\ mon = swclock_monitor_init(10)
    /\ mth = ThreadsIdle

\* The time of day passes.
MonTick ==
    /\ mon.now_ns < MaxMonTime * MonTickNs
    /\ mon' = [mon EXCEPT !.now_ns = @ + MonTickNs]
    /\ UNCHANGED mth
    /\ UNCHANGED notmon

\* swclock_monitor_add_sample.
MonAddSample(te_ns) ==
    /\ mon.nadds < MaxAdds
    /\ mon' = [circular_buffer_add(mon, mon.now_ns, te_ns)
                  EXCEPT !.nadds = @ + 1]
    /\ UNCHANGED mth
    /\ UNCHANGED notmon

\* swclock_monitor_set_thresholds.
MonSetThresholds(config) ==
    /\ mon.thresholds # config
    /\ mon' = [mon EXCEPT !.thresholds = config]
    /\ UNCHANGED mth
    /\ UNCHANGED notmon

\* swclock_monitor_compute_now by the thread that owns the monitor, the
\* compute thread asleep: compute_metrics, the store of the snapshot and
\* check_thresholds.
MonComputeNow(stale) ==
    /\ mth.ncomp < MaxComputes
    /\ mth.ct.pc = "sleep" /\ mth.rd.pc = "idle"
    /\ mon.count >= MinSamples
    /\ LET metrics == compute_metrics(mon, stale, mth.ncomp + 1)
       IN  /\ mon' = [mon EXCEPT !.latest_metrics = metrics,
                                 !.last_compute_time_ns =
                                     metrics.head.timestamp_ns,
                                 !.compute_count = @ + 1]
           /\ mth' = [mth EXCEPT
                         !.ncomp = @ + 1,
                         !.computed = @ \cup {metrics},
                         !.last = Computation("compute_now", metrics, mon,
                                      check_thresholds(mon.thresholds, metrics),
                                      TRUE)]
    /\ UNCHANGED notmon

\* compute_thread_main: compute_metrics into the thread's own snapshot.
ComputeThreadCompute(stale) ==
    /\ mth.ncomp < MaxComputes
    /\ mth.ct.pc = "sleep"
    /\ mon.count >= MinSamples
    /\ LET metrics == compute_metrics(mon, stale, mth.ncomp + 1)
       IN  mth' = [mth EXCEPT
                      !.ncomp = @ + 1,
                      !.computed = @ \cup {metrics},
                      !.ct = [pc |-> "store_head", metrics |-> metrics],
                      !.last = Computation("compute_thread", metrics, mon, {},
                                           FALSE)]
    /\ UNCHANGED mon
    /\ UNCHANGED notmon

\* compute_thread_main: monitor->latest_metrics = metrics, a plain struct
\* copy under no lock; its leading fields.
ComputeThreadStoreHead ==
    /\ mth.ct.pc = "store_head"
    /\ mon' = [mon EXCEPT !.latest_metrics.head = mth.ct.metrics.head]
    /\ mth' = [mth EXCEPT !.ct.pc = "store_tail"]
    /\ UNCHANGED notmon

\* compute_thread_main: the rest of the struct copy, last_compute_time_ns,
\* compute_count and check_thresholds.
ComputeThreadStoreTail ==
    /\ mth.ct.pc = "store_tail"
    /\ mon' = [mon EXCEPT !.latest_metrics.tail = mth.ct.metrics.tail,
                          !.last_compute_time_ns =
                              mth.ct.metrics.head.timestamp_ns,
                          !.compute_count = @ + 1]
    /\ mth' = [mth EXCEPT
                  !.ct.pc = "sleep",
                  !.last = IF @.by = "compute_thread"
                              /\ @.metrics = mth.ct.metrics
                           THEN [@ EXCEPT
                                    !.alerts = check_thresholds(mon.thresholds,
                                                                mth.ct.metrics),
                                    !.thresholds = mon.thresholds,
                                    !.done = TRUE]
                           ELSE @]
    /\ UNCHANGED notmon

\* swclock_monitor_get_metrics: the test of last_compute_time_ns; then the
\* leading fields of *snapshot = monitor->latest_metrics, or a fresh
\* compute_metrics.
GetMetricsCall(stale) ==
    /\ mth.nreads < MaxMonReads
    /\ mth.rd.pc = "idle"
    /\ IF mon.last_compute_time_ns > 0
          /\ mon.now_ns - mon.last_compute_time_ns < NS_PER_SEC
       THEN mth' = [mth EXCEPT
                       !.nreads = @ + 1,
                       !.rd = [pc |-> "copy_tail", rc |-> 0,
                               snapshot |->
                                   [ZeroMetrics EXCEPT
                                       !.head = mon.latest_metrics.head]]]
       ELSE IF mon.count < MinSamples
       THEN mth' = [mth EXCEPT
                       !.nreads = @ + 1,
                       !.rd = [pc |-> "done", rc |-> -1,
                               snapshot |-> ZeroMetrics]]
       ELSE /\ mth.ncomp < MaxComputes
            /\ LET metrics == compute_metrics(mon, stale, mth.ncomp + 1)
               IN  mth' = [mth EXCEPT
                              !.nreads = @ + 1,
                              !.ncomp = @ + 1,
                              !.computed = @ \cup {metrics},
                              !.rd = [pc |-> "done", rc |-> 0,
                                      snapshot |-> metrics],
                              !.last = IF mth.ct.pc = "sleep"
                                       THEN Computation("get_metrics", metrics,
                                                        mon, {}, TRUE)
                                       ELSE @]
    /\ UNCHANGED mon
    /\ UNCHANGED notmon

\* swclock_monitor_get_metrics: the rest of the struct copy.
GetMetricsCopyTail ==
    /\ mth.rd.pc = "copy_tail"
    /\ mth' = [mth EXCEPT !.rd.pc = "done",
                          !.rd.snapshot.tail = mon.latest_metrics.tail]
    /\ UNCHANGED mon
    /\ UNCHANGED notmon

\* swclock_monitor_get_metrics returns.
GetMetricsReturn ==
    /\ mth.rd.pc = "done"
    /\ mth' = [mth EXCEPT !.rd.pc = "idle"]
    /\ UNCHANGED mon
    /\ UNCHANGED notmon

MonNext ==
    \/ MonTick
    \/ \E te_ns \in MonTE : MonAddSample(te_ns)
    \/ MonSetThresholds(UserThresholds)
    \/ \E stale \in StaleTE : MonComputeNow(stale)
    \/ \E stale \in StaleTE : ComputeThreadCompute(stale)
    \/ ComputeThreadStoreHead
    \/ ComputeThreadStoreTail
    \/ \E stale \in StaleTE : GetMetricsCall(stale)
    \/ GetMetricsCopyTail
    \/ GetMetricsReturn

---------------------------------------------------------------------------
\* The PI-disciplined clock under its writers.
Init == PIInit(MaxWrites) /\ SSIdle /\ RBIdle /\ LifeIdle /\ MonIdle /\ ServoIdle /\ SlewIdle
    /\ StreamIdle
    /\ CompatIdle

Spec == Init /\ [][PINext]_vars

\* The PI-disciplined clock under its writers and concurrent readers.
InitRdSpec == PIInit(MaxWritesRd) /\ SSIdle /\ RBIdle /\ LifeIdle /\ MonIdle /\ ServoIdle /\ SlewIdle
    /\ StreamIdle
    /\ CompatIdle

SpecRd == InitRdSpec /\ [][RdNext]_vars

\* The scale+slew clock under concurrent swclock_now_ns calls.
InitSS == PIInit(0) /\ SSInit /\ RBIdle /\ LifeIdle /\ MonIdle /\ ServoIdle /\ SlewIdle
    /\ StreamIdle
    /\ CompatIdle

SpecSS == InitSS /\ [][SSNext]_vars

\* The byte ring with one producer and one consumer.
InitRing == PIInit(0) /\ SSIdle /\ RingInit /\ LifeIdle /\ MonIdle /\ ServoIdle /\ SlewIdle
    /\ StreamIdle
    /\ CompatIdle

SpecRing == InitRing /\ [][RingNext]_vars

\* The event logger under the poll worker and a thread calling swclock_adjtime.
InitEv == PIInit(MaxWritesEv) /\ SSIdle /\ EvInit /\ LifeIdle /\ MonIdle /\ ServoIdle /\ SlewIdle
    /\ StreamIdle
    /\ CompatIdle

SpecEv == InitEv /\ [][EvNext]_vars

\* The monitor under its sampler, its compute thread and a reader.
InitMon ==
    PIInit(0) /\ SSIdle /\ RBIdle /\ LifeIdle /\ MonInit /\ ServoIdle /\ SlewIdle
    /\ StreamIdle
    /\ CompatIdle

SpecMon == InitMon /\ [][MonNext]_vars

\* The PI servo of the servo library under pi_update.
InitPiServo ==
    PIInit(0) /\ SSIdle /\ RBIdle /\ LifeIdle /\ MonIdle /\ PiCreate
    /\ est = kf_create /\ SlewIdle
    /\ StreamIdle
    /\ CompatIdle

SpecPiServo == InitPiServo /\ [][PiNext]_vars

\* An estimator of the servo library under its configuration calls.
InitEst ==
    PIInit(0) /\ SSIdle /\ RBIdle /\ LifeIdle /\ MonIdle /\ PiCreate
    /\ EstCreate /\ SlewIdle
    /\ StreamIdle
    /\ CompatIdle

SpecEst == InitEst /\ [][EstNext]_vars

\* The life of a clock: its threads, its users and swclock_destroy.
InitLife == PIInit(0) /\ SSIdle /\ RBIdle /\ LifeInit /\ MonIdle /\ ServoIdle /\ SlewIdle
    /\ StreamIdle
    /\ CompatIdle

SpecLife == InitLife /\ [][LifeNext]_vars

-----------------------------------------------------------------------------
(* sw_clock_monitor.c: the sample ring followed push by push.  pushed is    *)
(* every te_ns given to swclock_monitor_add_sample, newest first; snapshot   *)
(* is what the last circular_buffer_get_samples copied, fresh while no       *)
(* sample was added since.                                                   *)

BufTE == {-400, 250, 7}

BufIdle == [pushed |-> <<>>, snapshot |-> <<>>, fresh |-> FALSE]

\* swclock_monitor_add_sample.
BufAddSample(te_ns) ==
    /\ mon.nadds < MaxBufAdds
    /\ mon' = [circular_buffer_add(mon, mon.now_ns, te_ns)
                  EXCEPT !.nadds = @ + 1]
    /\ mth' = [mth EXCEPT !.pushed = <<te_ns>> \o @, !.fresh = FALSE]
    /\ UNCHANGED notmon

\* circular_buffer_get_samples as compute_metrics calls it, with room for
\* SWCLOCK_MONITOR_BUFFER_SIZE samples.
BufGetSamples ==
    /\ ~mth.fresh
    /\ mth' = [mth EXCEPT !.snapshot = circular_buffer_get_samples(mon),
                          !.fresh = TRUE]
    /\ UNCHANGED mon
    /\ UNCHANGED notmon

BufNext ==
    \/ \E te_ns \in BufTE : BufAddSample(te_ns)
    \/ BufGetSamples

InitBuf ==
    /\ PIInit(0) /\ SSIdle /\ RBIdle /\ LifeIdle /\ ServoIdle /\ SlewIdle
    /\ StreamIdle
    /\ CompatIdle
    /\ mon = swclock_monitor_init(10)
    /\ mth = BufIdle

SpecBuf == InitBuf /\ [][BufNext]_vars

-----------------------------------------------------------------------------
(* sw_clock.c: one event log from start to stop, with the poll worker       *)
(* logging PI_STEP events meanwhile.  swclock_log_event is two steps: the    *)
(* test of event_logging_enabled with the fetch of the sequence number, and *)
(* the push, which a full ring refuses.                                     *)

\* swclock_ringbuf_push of a record on the ring of the stream.
StreamPush(ring, event_type, sequence_num) ==
    IF Len(ring) < StreamRingCap
    THEN Append(ring, [type |-> event_type, seq |-> sequence_num])
    ELSE ring

\* One step of the thread that calls swclock_start_event_log and then
\* swclock_stop_event_log.
StreamUserStep ==
    /\ es.user \in {"idle", "start_log", "start_push", "started", "stop_log",
                    "stop_push", "flag", "join", "close"}
    /\ CASE es.user = "idle" ->
              es' = [es EXCEPT !.event_log_fp = TRUE, !.ring = <<>>,
                               !.event_sequence = 0,
                               !.event_logging_enabled = TRUE,
                               !.event_logger_running = TRUE,
                               !.logger = "run", !.user = "start_log"]
         [] es.user \in {"start_log", "stop_log"} ->
              es' = IF es.event_logging_enabled
                    THEN [es EXCEPT !.user_seq = es.event_sequence,
                                    !.event_sequence = @ + 1,
                                    !.user = IF es.user = "start_log"
                                             THEN "start_push" ELSE "stop_push"]
                    ELSE [es EXCEPT !.user = IF es.user = "start_log"
                                             THEN "started" ELSE "flag"]
         [] es.user = "start_push" ->
              es' = [es EXCEPT !.ring = StreamPush(@, SWCLOCK_EVENT_LOG_START,
                                                   es.user_seq),
                               !.user = "started"]
         [] es.user = "started" ->
              /\ es.event_logging_enabled
              /\ es' = [es EXCEPT !.user = "stop_log"]
         [] es.user = "stop_push" ->
              es' = [es EXCEPT !.ring = StreamPush(@, SWCLOCK_EVENT_LOG_STOP,
                                                   es.user_seq),
                               !.user = "flag"]
         [] es.user = "flag" ->
              es' = [es EXCEPT !.event_logger_running = FALSE, !.user = "join"]
         [] es.user = "join" ->
              /\ es.logger = "exited"
              /\ es' = [es EXCEPT !.user = "close"]
         [] es.user = "close" ->
              es' = [es EXCEPT !.event_log_fp = FALSE,
                               !.event_logging_enabled = FALSE,
                               !.user = "done"]
    /\ UNCHANGED notstrm

\* swclock_log_event(PI_STEP) of the poll worker: the test and the fetch.
StreamOtherFetch ==
    /\ es.other = "idle"
    /\ es.n_other < MaxOtherEvents
    /\ es.event_logging_enabled
    /\ es' = [es EXCEPT !.other_seq = es.event_sequence,
                        !.event_sequence = @ + 1,
                        !.n_other = @ + 1,
                        !.other = "push"]
    /\ UNCHANGED notstrm

\* swclock_log_event(PI_STEP) of the poll worker: the push.
StreamOtherPush ==
    /\ es.other = "push"
    /\ es' = [es EXCEPT !.ring = StreamPush(@, SWCLOCK_EVENT_PI_STEP,
                                            es.other_seq),
                        !.other = "idle"]
    /\ UNCHANGED notstrm

\* One turn of the loop of swclock_event_logger_thread_main.
StreamLoggerStep ==
    /\ es.logger = "run"
    /\ es.ring # <<>> \/ ~es.event_logger_running
    /\ es' = IF es.ring # <<>>
             THEN [es EXCEPT !.ring = Tail(@),
                             !.file = IF es.event_log_fp
                                      THEN Append(@, Head(es.ring)) ELSE @]
             ELSE [es EXCEPT !.logger = "exited"]
    /\ UNCHANGED notstrm

StreamNext ==
    \/ StreamUserStep
    \/ StreamOtherFetch
    \/ StreamOtherPush
    \/ StreamLoggerStep

\* An event log started and stopped while the poll worker logs.
InitStream ==
    PIInit(0) /\ SSIdle /\ RBIdle /\ LifeIdle /\ MonIdle /\ ServoIdle /\ SlewIdle
    /\ StreamIdle
    /\ CompatIdle

SpecStream == InitStream /\ [][StreamNext]_vars

-----------------------------------------------------------------------------
(* One slew of the PI-disciplined clock run to its end: a single ADJ_OFFSET *)
(* request, then polls alone, each after some raw time has passed.          *)

\* Deltas of the request, around the dead band SWCLOCK_PHASE_EPS_NS.
SlewOffsets == {22000, -22000, 15000, -21000, 24000, -24000}

\* Raw time between two polls: the period of the poll thread, the short gap
\* of a caller of the public swclock_poll, or the gap of a poll thread that
\* was held up.
PollGaps == {ShortGapNs, SWCLOCK_POLL_NS, LateGapNs}

\* The part of adj_elapsed_ns the rebase adds to base_rt_ns because of
\* pi_freq_ppm: the advance at the total factor less the advance at the
\* base factor.
PiAdvance(c, now_raw_ns) ==
    LET elapsed_raw_ns == Max(0, now_raw_ns - c.ref_mono_raw)
    IN  ScaleElapsed(elapsed_raw_ns, total_factor(c))
        - ScaleElapsed(elapsed_raw_ns, scaledppm_to_factor(c.freq_scaled_ppm))

SlewTx(d) == [Tx0 EXCEPT !.modes = ADJ_OFFSET + ADJ_NANO, !.offset = d]

\* applied_phase_ns of the rebase is 0 although a phase is pending and the PI
\* rate is set: the elapsed time times the rate truncates to 0 ns.
Starved(c, now_raw_ns) ==
    /\ c.remaining_phase_ns # 0
    /\ c.pi_freq_ppm # 0
    /\ TruncMulE9(Max(0, now_raw_ns - c.ref_mono_raw),
                  total_factor(c) - scaledppm_to_factor(c.freq_scaled_ppm)) = 0

\* swclock_adjtime(c, tx) with ADJ_OFFSET | ADJ_NANO, once.
SlewAdjust(d) ==
    /\ ~slw.adjusted
    /\ clk' = swclock_adjtime(clk, now_raw, SlewTx(d))
    /\ Written("adjtime", SlewTx(d), NoTs, TRUE)
    /\ slw' = [slw EXCEPT !.adjusted = TRUE, !.d = d]
    /\ UNCHANGED <<pi_pc, sle>>
    /\ UNCHANGED notslew

\* gap ns of raw time pass, then swclock_poll runs.
SlewPoll(gap) ==
    /\ slw.adjusted
    /\ slw.polls < MaxSlewPolls
    /\ gap > SWCLOCK_POLL_NS => sle.late < MaxLatePolls
    /\ now_raw' = now_raw + gap
    /\ clk' = swclock_poll(clk, now_raw + gap)
    /\ last_op' = [OpRecord("poll", Tx0, NoTs) EXCEPT !.at = now_raw + gap]
    /\ nwrites' = nwrites + 1
    /\ slw' = [slw EXCEPT !.polls = @ + 1,
                          !.starved = IF Starved(clk, now_raw + gap)
                                      THEN @ + 1 ELSE @]
    /\ sle' = [extra |-> sle.extra + PiAdvance(clk, now_raw + gap),
               last  |-> PiAdvance(clk, now_raw + gap),
               late  |-> IF gap > SWCLOCK_POLL_NS THEN sle.late + 1
                         ELSE sle.late]
    /\ UNCHANGED <<rd, pi_pc, nticks, nreads, wlimit, slew_only>>
    /\ UNCHANGED notslew

SlewNext ==
    \/ \E d \in SlewOffsets : SlewAdjust(d)
    \/ \E gap \in PollGaps : SlewPoll(gap)

\* A SlewPoll step as the history of the slew shows it.
SlewPollMade ==
    /\ slw.adjusted
    /\ slw.polls < MaxSlewPolls
    /\ \E st \in 0..1 :
           slw' = [slw EXCEPT !.polls = @ + 1, !.starved = @ + st]

\* A slew under polls that keep occurring: the request returns, and the poll
\* thread loops until the clock is destroyed.
InitSlew ==
    PIInit(0) /\ SSIdle /\ RBIdle /\ LifeIdle /\ MonIdle /\ ServoIdle /\ SlewIdle
    /\ StreamIdle
    /\ CompatIdle

SpecSlew ==
    /\ InitSlew
    /\ [][SlewNext]_vars
    /\ WF_vars(\E d \in SlewOffsets : SlewAdjust(d))
    /\ WF_slw(SlewPollMade)

---------------------------------------------------------------------------
(* swclock_compat.c and sw_adjtimex.c: the adjtime-style entry points of    *)
(* the scale+slew clock.  Their int64_t arithmetic is followed exactly: a   *)
(* value is its sign and its magnitude, the magnitude a little-endian       *)
(* sequence of WideLimbs digits in base 2^16 (96 bits, enough for           *)
(* |req_ns| * 1000000 of any req_ns here).  The clock of this section was   *)
(* just created and raw time stands still, so swclock_adjust changes        *)
(* slew_remaining_ns and slew_window_left_ns only; these two fields are     *)
(* kept, in full width, in ca.                                              *)

LIMB == 2^16

WideLimbs == 1 + 1 + 1 + 1 + 1 + 1

I64Limbs == 1 + 1 + 1 + 1

WideZero == [i \in 1..WideLimbs |-> 0]

\* A natural number below 2^31.
WideOfNat(n) == [i \in 1..WideLimbs |-> IF i = 1 THEN n % LIMB
                                        ELSE IF i = 2 THEN n \div LIMB ELSE 0]

RECURSIVE WideMulCarry(_, _, _)
WideMulCarry(a, k, carry) ==
    IF a = <<>> THEN <<>>
    ELSE LET p == Head(a) * k + carry
         IN  <<p % LIMB>> \o WideMulCarry(Tail(a), k, p \div LIMB)

\* a * k for 0 <= k < 2^15.
WideMul(a, k) == WideMulCarry(a, k, 0)

RECURSIVE WideAddCarry(_, _, _)
WideAddCarry(a, b, carry) ==
    IF a = <<>> THEN <<>>
    ELSE LET s == Head(a) + Head(b) + carry
         IN  <<s % LIMB>> \o WideAddCarry(Tail(a), Tail(b), s \div LIMB)

WideAdd(a, b) == WideAddCarry(a, b, 0)

\* Quotient and remainder of a by k, 0 < k < 2^15.
RECURSIVE WideDivRem(_, _)
WideDivRem(a, k) ==
    IF a = <<>> THEN [q |-> <<>>, r |-> 0]
    ELSE LET hi  == WideDivRem(Tail(a), k)
             cur == hi.r * LIMB + Head(a)
         IN  [q |-> <<cur \div k>> \o hi.q, r |-> cur % k]

WideDiv(a, k) == WideDivRem(a, k).q

\* -1, 0 or 1 as a is below, equal to or above b.
RECURSIVE WideCmp(_, _)
WideCmp(a, b) ==
    IF a = <<>> THEN 0
    ELSE LET hi == WideCmp(Tail(a), Tail(b))
         IN  IF hi # 0 THEN hi
             ELSE IF Head(a) < Head(b) THEN -1
             ELSE IF Head(a) > Head(b) THEN 1 ELSE 0

\* The magnitude fits a non-negative int64_t.
FitsI64(a) ==
    /\ \A i \in (I64Limbs + 1)..WideLimbs : a[i] = 0
    /\ a[I64Limbs] < LIMB \div 2

\* An int64_t: sign and magnitude.
I64(n) == [neg |-> n < 0, mag |-> WideOfNat(Abs(n))]

I64Less(a, b) ==
    IF a.neg # b.neg THEN a.neg
    ELSE IF a.neg THEN WideCmp(a.mag, b.mag) = 1
    ELSE WideCmp(a.mag, b.mag) = -1

\* The int64_t the low 64 bits of a hold in two's complement.
WrapI64(a) ==
    LET low == [i \in 1..WideLimbs |-> IF i <= I64Limbs THEN a[i] ELSE 0]
        inv == [i \in 1..WideLimbs |-> IF i <= I64Limbs THEN LIMB - 1 - a[i]
                                       ELSE 0]
    IN  IF low[I64Limbs] < LIMB \div 2
        THEN [neg |-> FALSE, mag |-> low]
        ELSE [neg |-> TRUE, mag |-> WideAdd(inv, WideOfNat(1))]

\* a / k of C for an int64_t a and 0 < k < 2^15.
I64Div(a, k) ==
    LET q == WideDiv(a.mag, k)
    IN  [neg |-> a.neg /\ q # WideZero, mag |-> q]

\* |req_ns| * 1000000, exactly.
TimesE6(mag) == WideMul(WideMul(mag, 1000), 1000)

\* llabs(req_ns) * 1000000LL as an int64_t product.  When the product does
\* not fit the signed multiplication overflows, which is undefined: the
\* build wraps it to the low 64 bits, or (trapping arithmetic) the call
\* does not return.
LlabsTimesE6(req_ns) ==
    LET p == TimesE6(req_ns.mag)
    IN  IF FitsI64(p) THEN {[trapped |-> FALSE, v |-> [neg |-> FALSE, mag |-> p]]}
        ELSE {[trapped |-> FALSE, v |-> WrapI64(p)],
              [trapped |-> TRUE, v |-> I64(0)]}

\* (int64_t)delta->tv_sec * 1000000000LL + (int64_t)delta->tv_usec * 1000LL
\* for a timeval whose tv_sec and tv_usec have the same sign, as ns / 10^9
\* and (ns / 1000) % 10^6 of C give them.
timeval_to_ns(delta) ==
    [neg |-> delta[1] < 0 \/ delta[2] < 0,
     mag |-> WideAdd(WideMul(WideMul(WideMul(WideOfNat(Abs(delta[1])), 1000),
                                     1000), 1000),
                     WideOfNat(Abs(delta[2]) * 1000))]

\* The window swclock_adjust installs: slew_window_ns below 1 becomes 1.
adjust_window(slew_window_ns) ==
    IF I64Less(slew_window_ns, I64(1)) THEN I64(1) ELSE slew_window_ns

\* sw_adjtime(sw, delta, NULL, max_slew_ppm, default_window_ns): the calls it
\* may turn into, each with the offset and the window swclock_adjust
\* installed.
sw_adjtime(delta, max_slew_ppm, default_window_ns) ==
    LET req_ns == timeval_to_ns(delta)
        window_ns == IF I64Less(I64(0), default_window_ns)
                     THEN default_window_ns ELSE I64(500000000)
        call == [called |-> TRUE, trapped |-> FALSE, delta |-> delta,
                 max_slew_ppm |-> max_slew_ppm,
                 default_window_ns |-> default_window_ns, req_ns |-> req_ns,
                 slew_remaining_ns |-> req_ns,
                 slew_window_left_ns |-> adjust_window(window_ns)]
    IN  IF max_slew_ppm > 0
        THEN { IF p.trapped
               THEN [call EXCEPT !.trapped = TRUE,
                                 !.slew_remaining_ns = I64(0),
                                 !.slew_window_left_ns = I64(0)]
               ELSE LET min_window == I64Div(p.v, max_slew_ppm)
                    IN  IF I64Less(window_ns, min_window)
                        THEN [call EXCEPT !.slew_window_left_ns =
                                              adjust_window(min_window)]
                        ELSE call
               : p \in LlabsTimesE6(req_ns) }
        ELSE {call}

\* The ADJ_OFFSET branch of sw_adjtimex for tx->offset microseconds: its own
\* window for 500 ppm, then sw_adjtime with the timeval of delta_ns.  The
\* offsets taken here keep llabs(delta_ns) * 1000000 within an int64_t.
sw_adjtimex_offset(offset) ==
    LET delta_ns  == [neg |-> offset < 0,
                      mag |-> WideMul(WideOfNat(Abs(offset)), 1000)]
        min_win   == I64Div([neg |-> FALSE, mag |-> TimesE6(delta_ns.mag)], 500)
        window_ns == IF I64Less(I64(500000000), min_win) THEN min_win
                     ELSE I64(500000000)
    IN  sw_adjtime(<<CDiv(offset, 1000000), CMod(offset, 1000000)>>, 500,
                   window_ns)

\* The (tv_sec, tv_usec) requests: a few seconds, and a few hours either way.
CompatDeltas ==
    {<<0, 0>>, <<0, 250000>>, <<1, 0>>, <<-1, -500000>>, <<2, 0>>, <<30, 0>>,
     <<9223, 0>>, <<9224, 0>>, <<10000, 0>>, <<-10000, 0>>, <<18447, 0>>,
     <<86400, 0>>}

CompatPpms == {0, 1, 500, 20000}

CompatWindows == {0, 1000000000, 2000000000}

CompatOffsets == {0, 1200, -250000, 3000000}

SwAdjtime(delta, max_slew_ppm, default_window_ns) ==
    /\ ca' \in sw_adjtime(delta, max_slew_ppm, I64(default_window_ns))
    /\ UNCHANGED notcompat

SwAdjtimex(offset) ==
    /\ ca' \in sw_adjtimex_offset(offset)
    /\ UNCHANGED notcompat

CompatNext ==
    \/ \E delta \in CompatDeltas, ppm \in CompatPpms, w \in CompatWindows :
           SwAdjtime(delta, ppm, w)
    \/ \E offset \in CompatOffsets : SwAdjtimex(offset)

InitCompat ==
    PIInit(0) /\ SSIdle /\ RBIdle /\ LifeIdle /\ MonIdle /\ ServoIdle /\ SlewIdle
    /\ StreamIdle
    /\ CompatIdle

SpecCompat == InitCompat /\ [][CompatNext]_vars

---------------------------------------------------------------------------
(* Claims about the PI-disciplined clock under its writers (Spec).         *)

\* C6: in every reachable state, after any sequence of poll, adjtime, settime
\* and PI enable/disable operations, |pi_freq_ppm| <= SWCLOCK_PI_MAX_PPM.
C6_PiFreqWithinMax ==
    Abs(clk.pi_freq_ppm) <= SWCLOCK_PI_MAX_PPM * PPM_FIX

\* A poll has run on a phase error whose proportional term alone exceeds the
\* limit (Kp * 1 s = 200 ppm), and the output sits on the limit.
C6_Witness ==
    /\ last_op.kind = "poll"
    /\ clk.remaining_phase_ns > NS_PER_SEC
    /\ clk.pi_freq_ppm = SWCLOCK_PI_MAX_PPM * PPM_FIX

\* C9: when swclock_adjtime with ADJ_SETOFFSET returns, the whole PI state is
\* reset: remaining_phase_ns = 0, pi_int_error_s = 0 and pi_freq_ppm = 0.
C9_SetOffsetResetsPI ==
    (last_op.kind = "adjtime" /\ HasBit(last_op.tx.modes, ADJ_SETOFFSET)) =>
        /\ clk.remaining_phase_ns = 0
        /\ clk.pi_int_error_s = 0
        /\ clk.pi_freq_ppm = 0

\* C10: swclock_adjtime with ADJ_OFFSET (and no ADJ_SETOFFSET) and delta d adds
\* d (microseconds x 1000, or nanoseconds with ADJ_NANO) to the
\* remaining_phase_ns its rebase left, sets pi_int_error_s and pi_freq_ppm to 0
\* and applies no step: base_rt_ns and base_mono_ns change only by the raw time
\* elapsed since the previous rebase, scaled by the total factor.
C10_OffsetSlewsNoStep ==
    LET tx      == last_op.tx
        pre     == last_op.pre
        d       == IF HasBit(tx.modes, ADJ_NANO) THEN tx.offset ELSE tx.offset * 1000
        elapsed == Max(0, last_op.at - pre.ref_mono_raw)
        advance == ScaleElapsed(elapsed, total_factor(pre))
    IN  (/\ last_op.kind = "adjtime"
         /\ HasBit(tx.modes, ADJ_OFFSET)
         /\ ~HasBit(tx.modes, ADJ_SETOFFSET)) =>
            /\ clk.remaining_phase_ns =
                   swclock_rebase_now_and_update(pre, last_op.at).remaining_phase_ns + d
            /\ clk.pi_int_error_s = 0
            /\ clk.pi_freq_ppm = 0
            /\ clk.base_rt_ns = pre.base_rt_ns + advance
            /\ clk.base_mono_ns = pre.base_mono_ns + advance

\* ADJ_OFFSET has run on a clock that was slewing (servo output and integrator
\* nonzero) after raw time had passed since the previous rebase.
C10_Witness ==
    /\ last_op.kind = "adjtime"
    /\ HasBit(last_op.tx.modes, ADJ_OFFSET)
    /\ ~HasBit(last_op.tx.modes, ADJ_SETOFFSET)
    /\ last_op.pre.pi_freq_ppm # 0
    /\ last_op.pre.pi_int_error_s # 0
    /\ last_op.pre.remaining_phase_ns # 0
    /\ last_op.at > last_op.pre.ref_mono_raw

---------------------------------------------------------------------------
(* Claims about reads of the PI-disciplined clock (SpecRd).                *)

\* A completed swclock_gettime(REALTIME or MONOTONIC) of thread r.
ReadDone(r, clk_id) ==
    rd[r].pc = "done" /\ rd[r].rc = 0 /\ rd[r].id = clk_id

\* C1: in a run of gettime(CLOCK_REALTIME) callers, polls and adjtime calls
\* (FREQUENCY, OFFSET, SETOFFSET with non-negative delta), with no settime and
\* no SETOFFSET with negative delta, a gettime(REALTIME) never returns less
\* than a gettime(REALTIME) that completed before it started.
C1_RealtimeReadsMonotone ==
    \A r \in Readers :
        (/\ slew_only
         /\ ReadDone(r, CLOCK_REALTIME)
         /\ rd[r].prev.valid
         /\ rd[r].prev.id = CLOCK_REALTIME) =>
            ts_to_ns(rd[r].tp) >= ts_to_ns(rd[r].prev.tp)

\* C7: after swclock_settime(CLOCK_REALTIME, ts) remaining_phase_ns,
\* pi_int_error_s and pi_freq_ppm are 0, and a gettime(REALTIME) that reads the
\* state the call left returns ts plus the scaled raw time elapsed since the
\* call.
C7_SettimeSetsAndResets ==
    /\ last_op.kind = "settime" =>
           /\ clk.remaining_phase_ns = 0
           /\ clk.pi_int_error_s = 0
           /\ clk.pi_freq_ppm = 0
    /\ \A r \in Readers :
           (ReadDone(r, CLOCK_REALTIME) /\ rd[r].op.kind = "settime") =>
               ts_to_ns(rd[r].tp) =
                   ts_to_ns(rd[r].op.tp)
                   + ScaleElapsed(rd[r].t_read - rd[r].op.at, rd[r].snap.factor)

\* The difference of two consecutive reads of one thread around one
\* swclock_adjtime call: the second read minus the first, minus the raw time
\* between them scaled by the rate the clock runs at after the call.
StepSeen(r) ==
    ts_to_ns(rd[r].tp) - ts_to_ns(rd[r].prev.tp)
    - ScaleElapsed(rd[r].t_read - rd[r].prev.t_read, rd[r].snap.factor)

\* Thread r has completed a read before the ADJ_SETOFFSET call rd[r].op and
\* made its next read from the state that call left: the call is the only
\* writer between the two reads.
ReadAroundSetOffset(r, clk_id) ==
    /\ ReadDone(r, clk_id)
    /\ rd[r].op.kind = "adjtime"
    /\ HasBit(rd[r].op.tx.modes, ADJ_SETOFFSET)
    /\ rd[r].n_read = rd[r].op.n
    /\ rd[r].prev.valid
    /\ rd[r].prev.id = clk_id
    /\ rd[r].prev.n = rd[r].op.n - 1
    /\ rd[r].prev.n_read = rd[r].op.n - 1

\* C8: swclock_adjtime with ADJ_SETOFFSET adds exactly the requested delta to
\* the REALTIME base within the call; a gettime(REALTIME) after the call
\* exceeds one before it by delta plus the scaled raw time between the two
\* reads (to the nanosecond the casts round to), and MONOTONIC is not shifted.
C8_SetOffsetStepsRealtime ==
    /\ (last_op.kind = "adjtime" /\ HasBit(last_op.tx.modes, ADJ_SETOFFSET)) =>
           LET reb == swclock_rebase_now_and_update(last_op.pre, last_op.at)
           IN  /\ clk.base_rt_ns = reb.base_rt_ns + SetOffsetDelta(last_op.tx)
               /\ clk.base_mono_ns = reb.base_mono_ns
    /\ \A r \in Readers :
           /\ ReadAroundSetOffset(r, CLOCK_REALTIME) =>
                  Abs(StepSeen(r) - SetOffsetDelta(rd[r].op.tx)) <= 1
           /\ ReadAroundSetOffset(r, CLOCK_MONOTONIC) =>
                  Abs(StepSeen(r)) <= 1

---------------------------------------------------------------------------
(* Claims about the scale+slew clock (SpecSS).                             *)

\* C2: swclock_now_ns never returns less than a value a call that had already
\* completed returned, under any interleaving of concurrent swclock_now_ns,
\* swclock_set_freq and swclock_adjust calls.
C2_NowNeverDecreases ==
    \A t \in SSThreads :
        (th[t].returned /\ th[t].floor.valid /\ ~ss_aligned)
            => th[t].out >= th[t].floor.v

---------------------------------------------------------------------------
(* Claims about the byte ring (SpecRing) and the event logger (SpecEv).    *)

\* C3: with one producer and one consumer, the records swclock_ringbuf_pop
\* returns are, in order and byte for byte, the records swclock_ringbuf_push
\* accepted: no pop fails on a ring that holds a record, what has been
\* returned is a prefix of what has been accepted, and once the ring is empty
\* and both sides are outside their calls everything accepted has been
\* returned.  This covers records whose size header or data wrap around the
\* end of the buffer.
C3_RingRoundTrip ==
    /\ hist.bad_pops = 0
    /\ Len(hist.delivered) <= Len(hist.accepted)
    /\ \A i \in 1..Len(hist.delivered) : hist.delivered[i] = hist.accepted[i]
    /\ (swclock_ringbuf_is_empty(rb) /\ cons.pc = "idle")
           => hist.delivered = hist.accepted

C3_Witness ==
    /\ hist.wrapped = {"size", "data"}
    /\ Len(hist.delivered) = MaxPush
    /\ hist.delivered = hist.accepted

\* C4: with events logged by the poll worker and by a thread calling
\* swclock_adjtime, every event whose push was accepted reaches the logger
\* exactly once and intact: no pop fails on a ring that holds a record, each
\* record the logger pops is, byte for byte, an event swclock_log_event built,
\* none is popped twice, and once the ring is empty and every thread is
\* outside its calls each accepted event has been popped.
C4_EveryEventDeliveredOnce ==
    /\ hist.bad_pops = 0
    /\ \A i \in 1..Len(hist.delivered) :
           /\ hist.delivered[i] \in hist.built
           /\ \A k \in 1..Len(hist.delivered) :
                  hist.delivered[k] = hist.delivered[i] => k = i
    /\ (/\ swclock_ringbuf_is_empty(rb)
        /\ cons.pc = "idle"
        /\ \A t \in ProdThreads : prod[t].pc = "idle")
           => \A j \in 1..Len(hist.accepted) :
                  \E i \in 1..Len(hist.delivered) :
                      hist.delivered[i] = hist.accepted[j]

\* C5: the records of the event log are in strictly increasing sequence_num
\* order.
C5_LogSequenceIncreasing ==
    \A i \in 1..Len(ev.log) : \A j \in 1..Len(ev.log) :
        i < j => SequenceNum(ev.log[i]) < SequenceNum(ev.log[j])

-----------------------------------------------------------------------------
(* Claims about the poll of the PI-disciplined clock (Spec).               *)

\* The state a poll has left is all zero in the phase, integrator and PI rate.
PollLeftZero ==
    /\ clk.remaining_phase_ns = 0
    /\ clk.pi_int_error_s = 0
    /\ clk.pi_freq_ppm = 0

AppliedPhase(c, now_raw_ns) ==
    TruncMulE9(Max(0, now_raw_ns - c.ref_mono_raw),
               total_factor(c) - scaledppm_to_factor(c.freq_scaled_ppm))

\* The last writer was a poll on a clock with a pending phase and a PI rate.
PollOnSlewingClock ==
    /\ last_op.kind = "poll"
    /\ last_op.pre.remaining_phase_ns # 0
    /\ last_op.pre.pi_freq_ppm # 0

\* The pending phase is 0, or has kept its sign and lost magnitude.
PhaseShrunk ==
    \/ clk.remaining_phase_ns = 0
    \/ /\ Sgn(clk.remaining_phase_ns) = Sgn(last_op.pre.remaining_phase_ns)
       /\ Abs(clk.remaining_phase_ns) < Abs(last_op.pre.remaining_phase_ns)

\* C12: a poll on a clock with remaining_phase_ns # 0 and pi_freq_ppm # 0,
\* run after enough raw time for the PI rate to have applied at least 1 ns,
\* leaves |remaining_phase_ns| strictly smaller with its sign unchanged, or 0;
\* and no poll makes |remaining_phase_ns| grow.
C12_SlewMagnitudeDecreases ==
    /\ (PollOnSlewingClock /\ AppliedPhase(last_op.pre, last_op.at) # 0)
       => PhaseShrunk
    /\ last_op.kind = "poll"
       => Abs(clk.remaining_phase_ns) <= Abs(last_op.pre.remaining_phase_ns)

\* C12 as stated: every poll on a clock with remaining_phase_ns # 0 and
\* pi_freq_ppm # 0 leaves |remaining_phase_ns| strictly smaller, or 0.
C12_SlewMagnitudeDecreasesAlways ==
    PollOnSlewingClock => PhaseShrunk

\* A poll has taken a part, not all, of the pending phase.
C12_Witness ==
    /\ PollOnSlewingClock
    /\ clk.remaining_phase_ns # 0
    /\ Abs(clk.remaining_phase_ns) < Abs(last_op.pre.remaining_phase_ns)

-----------------------------------------------------------------------------
(* Claims about the slew of the scale+slew clock (SpecSS).                 *)

\* What the clock should map raw time mono_ns to once the window of the last
\* swclock_adjust is over: out(t0) + base_scale * (t - t0) + offset_ns.
OutAfterWindow(mono_ns) ==
    ss_adj.out0 + LLRoundMul(ss_adj.base_scale, mono_ns - ss_adj.t0)
        + ss_adj.offset_ns

\* Thread t holds the output map_now_locked computed for a raw time at or
\* after the end of the window of the last swclock_adjust.
MappedAfterWindow(t) ==
    /\ th[t].pc = "mapped"
    /\ ss_adj.valid
    /\ th[t].mono_ns >= ss_adj.t0 + ss_adj.window_ns

\* C13: after swclock_adjust(offset_ns, window_ns) at raw time t0, with no
\* later swclock_set_freq, swclock_adjust or swclock_align_now, the output
\* mapped for any t >= t0 + window_ns is out(t0) + base_scale * (t - t0) +
\* offset_ns within 2 ns of rounding, however many reads the window saw.
C13_SlewDeliversOffset ==
    \A t \in SSThreads :
        MappedAfterWindow(t)
            => Abs(th[t].raw - OutAfterWindow(th[t].mono_ns)) <= 2

-----------------------------------------------------------------------------
(* Claims about the life of a clock (SpecLife).                            *)

\* C14: when swclock_destroy has released the clock, the poll worker, the
\* event logger thread and the monitor's compute thread have all ended (or
\* were never started), whether or not the poll worker was created, and no
\* thread has touched the clock after the release.
C14_DestroyJoinsEveryTask ==
    lc.freed =>
        /\ lc.poll \in {"none", "exited"}
        /\ lc.logger \in {"none", "exited"}
        /\ lc.monitor \in {"none", "exited"}
        /\ ~lc.uaf

\* C15: the poll worker never calls swclock_gettime while it holds the write
\* lock: its structured-log and monitor sampling run outside the lock.
C15_NoGettimeUnderWriteLock ==
    ~(lc.lock = "poll" /\ lc.poll \in {"log_gettime", "jsonld_gettime"})

-----------------------------------------------------------------------------
(* Claims about readers running beside the writers (SpecRd).               *)

\* The state the writer call recorded in op left behind.
WriterResult(op) ==
    CASE op.kind = "poll"             -> swclock_poll(op.pre, op.at)
      [] op.kind = "adjtime"          -> swclock_adjtime(op.pre, op.at, op.tx)
      [] op.kind = "settime"          -> swclock_settime(op.pre, op.at, op.tp)
      [] op.kind = "enable_PIServo"   -> enable_PIServo_locked(op.pre)
      [] op.kind = "disable_PIServo"  -> disable_PIServo_locked(op.pre)
      [] op.kind = "disable_pi_servo" -> swclock_disable_pi_servo(op.pre)
      [] OTHER                        -> op.pre

\* What a swclock_gettime has copied is what one writer call left.
SnapshotOfOneWriter ==
    \A r \in Readers :
        rd[r].pc = "locked"
            => rd[r].snap = GettimeSnapshot(WriterResult(rd[r].op), rd[r].id)

\* A step that changes the clock is one whole writer call on the state the
\* writer before it left.
WholeWriter ==
    clk' # clk => /\ nwrites' = nwrites + 1
                  /\ last_op'.n = nwrites'
                  /\ last_op'.pre = clk
                  /\ clk' = WriterResult(last_op')

-----------------------------------------------------------------------------
(* Claims about rejected calls (SpecRd, Spec).                             *)

\* Reader r starts a swclock_gettime call in this step with an id that is not
\* CLOCK_REALTIME, CLOCK_MONOTONIC or CLOCK_MONOTONIC_RAW.
GettimeCalledWithBadId(r) ==
    /\ nreads' = nreads + 1
    /\ rd'[r] # rd[r]
    /\ rd'[r].id \notin {CLOCK_REALTIME, CLOCK_MONOTONIC, CLOCK_MONOTONIC_RAW}

\* A swclock_settime call with an id that is not CLOCK_REALTIME runs in this
\* step.
SettimeCalledWithBadId ==
    /\ nwrites' = nwrites + 1
    /\ last_op'.kind \in {"settime", "settime_einval"}
    /\ last_op'.id # CLOCK_REALTIME

\* C17: swclock_gettime with an id other than CLOCK_REALTIME, CLOCK_MONOTONIC
\* and CLOCK_MONOTONIC_RAW, and swclock_settime with an id other than
\* CLOCK_REALTIME, return -1 with errno EINVAL and leave the clock (and the
\* timespec of the reader) as it was.
C17_BadIdRejectedUntouched ==
    [][ /\ \A r \in Readers :
               GettimeCalledWithBadId(r)
                   => /\ rd'[r].pc = "done"
                      /\ rd'[r].rc = -1
                      /\ rd'[r].errno = "EINVAL"
                      /\ rd'[r].tp = rd[r].tp
                      /\ clk' = clk
        /\ SettimeCalledWithBadId
               => /\ last_op'.rc = -1
                  /\ last_op'.errno = "EINVAL"
                  /\ clk' = clk ]_vars

\* A reader has been refused CLOCK_TAI while holding the time of an earlier
\* call, and a swclock_settime on CLOCK_MONOTONIC has been refused on a clock
\* that a writer had changed before.
C17_Witness ==
    /\ \E r \in Readers :
           /\ rd[r].pc = "done"
           /\ rd[r].id = CLOCK_TAI
           /\ rd[r].rc = -1
           /\ rd[r].tp # NoTs
    /\ last_op.kind = "settime_einval"
    /\ last_op.id = CLOCK_MONOTONIC
    /\ last_op.pre # swclock_create(RAW0, RT0)

\* C18: swclock_adjtime returns TIME_OK when it succeeds and TIME_BAD when it
\* refuses its arguments, and a refused call leaves the clock as it was.
C18_AdjtimeReturnCodes ==
    /\ last_op.kind = "adjtime" => last_op.rc = TIME_OK
    /\ last_op.kind = "adjtime_einval"
           => /\ last_op.rc = TIME_BAD
              /\ clk = last_op.pre

\* The last writer was a swclock_adjtime whose request carries mode bit.
AdjtimeWithMode(bit) ==
    /\ last_op.kind = "adjtime"
    /\ HasBit(last_op.tx.modes, bit)

\* C19: a swclock_adjtime call with ADJ_MAXERROR, ADJ_ESTERROR or
\* ADJ_TIMECONST stores the maxerror, esterror or constant it was given, so
\* that the readback of the same call carries those values; and the readback
\* of every call carries status, freq, maxerror, esterror, constant, tick and
\* tai of the clock and precision 1.
C19_ErrorFieldsStoredAndReadBack ==
    LET back == AdjtimeReadback(clk, last_op.tx)
    IN  /\ AdjtimeWithMode(ADJ_MAXERROR) => back.maxerror = last_op.tx.maxerror
        /\ AdjtimeWithMode(ADJ_ESTERROR) => back.esterror = last_op.tx.esterror
        /\ AdjtimeWithMode(ADJ_TIMECONST) => back.constant = last_op.tx.constant
        /\ last_op.kind = "adjtime"
               => /\ back.status = clk.status
                  /\ back.freq = clk.freq_scaled_ppm
                  /\ back.maxerror = clk.maxerror
                  /\ back.esterror = clk.esterror
                  /\ back.constant = clk.constant
                  /\ back.precision = 1
                  /\ back.tick = clk.tick
                  /\ back.tai = clk.tai

-----------------------------------------------------------------------------
(* Claims about refused pushes of the byte ring (SpecRing).                *)

\* In this step the swclock_ringbuf_push of thread t, holding a non-empty
\* record, tests its argument and the room and goes on or returns false.
PushDecides(t) ==
    /\ prod[t].pc = "load"
    /\ prod'[t] # prod[t]
    /\ Len(prod[t].data) > 0

\* C20: a swclock_ringbuf_push of a non-empty record that returns false has
\* set the overrun flag and left write_pos and the stored bytes as they were,
\* and a push that finds 4 + size bytes free does not return false.
C20_RefusedPushFlagsOverrun ==
    [][ \A t \in ProdThreads :
            PushDecides(t) =>
                /\ prod'[t].pc # "write"
                       => /\ rb'.overrun_flag
                          /\ rb'.write_pos = rb.write_pos
                          /\ rb'.buffer = rb.buffer
                /\ ~PushNoRoom(rb.write_pos, rb.read_pos, prod[t].data)
                       => prod'[t].pc = "write" ]_vars

-----------------------------------------------------------------------------
(* Claims about the positions of the byte ring (SpecRing).                 *)

\* C21: under any interleaving of the steps of one producer and one consumer,
\* read_pos <= write_pos and write_pos - read_pos <= SWCLOCK_RINGBUF_SIZE in
\* every state; the bytes a pop has copied lie below the published
\* write_pos, and the bytes a push is writing lie outside the unread part.
C21_RingPositions ==
    /\ rb.read_pos <= rb.write_pos
    /\ rb.write_pos - rb.read_pos <= SWCLOCK_RINGBUF_SIZE
    /\ cons.pc = "publish"
           => /\ cons.read_pos = rb.read_pos
              /\ cons.read_pos + SIZEOF_UINT32 + Len(cons.data) <= rb.write_pos
    /\ \A t \in ProdThreads :
           prod[t].pc \in {"write", "publish"}
               => /\ prod[t].write_pos = rb.write_pos
                  /\ prod[t].write_pos + SIZEOF_UINT32 + Len(prod[t].data)
                         <= rb.read_pos + SWCLOCK_RINGBUF_SIZE

\* The consumer holds a record it has copied while the producer has written
\* the next one, not yet published, into a ring whose positions have passed
\* the end of the buffer.
C21_Witness ==
    /\ cons.pc = "publish"
    /\ prod[1].pc = "publish"
    /\ rb.write_pos > SWCLOCK_RINGBUF_SIZE

-----------------------------------------------------------------------------
(* Claims about swclock_stop_event_log (SpecLife).                         *)

\* C22: when swclock_stop_event_log has returned, LOG_STOP was emitted, the
\* logger thread has written every record that was in the ring at the call
\* (LOG_STOP included) and has exited, and the file is closed.
C22_StopDrainsThenCloses ==
    lc.stop = "done"
        => /\ lc.stop_pushed
           /\ lc.owed = 0
           /\ lc.logger = "exited"
           /\ ~lc.event_log_fp

-----------------------------------------------------------------------------
(* Claims about the real-time monitor (SpecMon).                           *)

\* C23: the MTIE values of one computation are monotone in the observation
\* interval: mtie_1s <= mtie_10s <= mtie_30s <= mtie_60s.
C23_MtieMonotone ==
    LET t == mth.last.metrics.tail
    IN  /\ t.mtie_1s_ns <= t.mtie_10s_ns
        /\ t.mtie_10s_ns <= t.mtie_30s_ns
        /\ t.mtie_30s_ns <= t.mtie_60s_ns

\* The alerts a computation owes: one for each of MTIE(1 s), MTIE(10 s) and
\* TDEV(1 s) above its limit, and one for a sample whose |TE| is above the
\* limit of the time error.
AlertsOwed(c) ==
    {a \in {"MTIE(1s)", "MTIE(10s)", "TDEV(1s)", "Max TE"} :
        \/ a = "MTIE(1s)"
           /\ c.metrics.tail.mtie_1s_ns > c.thresholds.mtie_1s_threshold_ns
        \/ a = "MTIE(10s)"
           /\ c.metrics.tail.mtie_10s_ns > c.thresholds.mtie_10s_threshold_ns
        \/ a = "TDEV(1s)"
           /\ TdevAbove(c.metrics.tail.tdev_1s_ns,
                        c.thresholds.tdev_1s_threshold_ns)
        \/ a = "Max TE"
           /\ \E i \in 1..Len(c.samples) :
                  Abs(c.samples[i]) > c.thresholds.max_te_threshold_ns}

\* C24: after each computation of the metrics with thresholds configured,
\* the alert callback has been called for every monitored metric above its
\* limit: MTIE(1 s), MTIE(10 s), TDEV(1 s) and the |TE| of any sample of the
\* window.
C24_EveryExcessAlerted ==
    (mth.last.done /\ mth.last.thresholds.enabled
     /\ mth.last.thresholds.alert_callback)
        => AlertsOwed(mth.last) \subseteq mth.last.alerts

\* C25: the snapshot swclock_monitor_get_metrics returns holds the fields of
\* one single computation.
C25_SnapshotOfOneComputation ==
    (mth.rd.pc = "done" /\ mth.rd.rc = 0)
        => \E m \in mth.computed : Fields(mth.rd.snapshot) = Fields(m)

-----------------------------------------------------------------------------
(* Claims about the servo library (SpecEst, SpecPiServo).                  *)

\* C26: reset() of every estimator returns the filter to its uninitialised
\* state (state vector zero, update count 0, not initialised) and preserves
\* the current Q00, Q11 and R and the adaptation knobs baseQ, alpha and beta.
C26_ResetKeepsNoiseAndKnobs ==
    [][(est'.last_op = "reset" /\ est'.nops = est.nops + 1)
          => /\ est'.x = <<0, 0>>
             /\ est'.updateCount = 0
             /\ ~est'.initialized
             /\ est'.Q00 = est.Q00 /\ est'.Q11 = est.Q11 /\ est'.R = est.R
             /\ est'.baseQ = est.baseQ
             /\ est'.alpha = est.alpha /\ est'.beta = est.beta]_vars

\* C27: a pi_update on an initialised PI servo changes x_drift by at most
\* 50 ppb, whatever z and dt > 0, and leaves |x_drift| <= 200 ppb and
\* |integ| <= 0.25 s.
C27_PiStepAndClamps ==
    [][(pis.initialized /\ pis'.n = pis.n + 1)
          => /\ Abs(pis'.x_drift - pis.x_drift) <= PTPD_PI_MAX_PPB_STEP
             /\ Abs(pis'.x_drift) <= PTPD_PI_MAX_PPB_ABS
             /\ Abs(pis'.integ) <= PTPD_PI_INT_CLAMP_S]_vars

-----------------------------------------------------------------------------
(* Claims about swclock_align_now (SpecSS).                                *)

\* What the clock reads at raw time mono_ns after the last swclock_align_now:
\* its target plus base_scale times the raw time elapsed since the call.
OutAfterAlign(mono_ns) ==
    ss_adj.out0 + LLRoundMul(ss_adj.base_scale, mono_ns - ss_adj.t0)

\* Thread t has returned from the first swclock_now_ns begun after the last
\* swclock_align_now returned, no swclock_set_freq or swclock_adjust since.
NextAfterAlign(t) ==
    /\ th[t].returned
    /\ th[t].aligned > 0
    /\ th[t].aligned = ss_adj.align

\* C28: once swclock_align_now(target) has returned, slew_remaining_ns and
\* slew_window_left_ns are 0 and the next swclock_now_ns returns target plus
\* base_scale times the raw time elapsed since the call (within 1 ns of
\* rounding), whatever swclock_now_ns calls of other threads run beside it.
C28_AlignReadsTarget ==
    /\ (ss_adj.align > 0 /\ ss_adj.done /\ \A t \in SSThreads : th[t].pc = "idle")
           => sw.slew_remaining_ns = 0 /\ sw.slew_window_left_ns = 0
    /\ \A t \in SSThreads :
           NextAfterAlign(t)
               => Abs(th[t].out - OutAfterAlign(th[t].mono_ns)) <= 1

-----------------------------------------------------------------------------
(* Claims about the dead band of the PI-disciplined clock (Spec).          *)

\* The operations on the PI-disciplined clock that change its state.
ClockOps ==
    {"poll", "adjtime", "settime", "enable_PIServo", "disable_PIServo",
     "disable_pi_servo"}

\* C30: in every state reached when an operation on the PI-disciplined clock
\* completes (poll, adjtime, settime, PI enable or disable), a
\* remaining_phase_ns of magnitude at most SWCLOCK_PHASE_EPS_NS comes with
\* pi_int_error_s = 0 and pi_freq_ppm = 0.
C30_DeadBandMeansServoZero ==
    ( /\ last_op.kind \in ClockOps
      /\ Abs(clk.remaining_phase_ns) <= SWCLOCK_PHASE_EPS_NS )
    => clk.pi_int_error_s = 0 /\ clk.pi_freq_ppm = 0

-----------------------------------------------------------------------------
(* Claims about the cached rate of the PI-disciplined clock (Spec).        *)

\* C31: whenever no writer is inside its critical section,
\* cached_total_factor, the rate swclock_gettime extrapolates with, equals
\* 1 + (freq_scaled_ppm / 65536 + pi_freq_ppm) x 1e-6 of the current state,
\* the rate the next rebase applies to the same interval.
C31_CachedFactorCurrent ==
    clk.cached_total_factor = total_factor(clk)

-----------------------------------------------------------------------------
(* Claims about a slew run to its end (SpecSlew).                          *)

\* A step of a slew in progress keeps the sign of the pending phase and
\* leaves a phase of 0 at 0.
SlewStepKeepsSign ==
    slw.adjusted =>
        /\ clk.remaining_phase_ns = 0 => clk'.remaining_phase_ns = 0
        /\ clk'.remaining_phase_ns # 0 =>
               Sgn(clk'.remaining_phase_ns) = Sgn(clk.remaining_phase_ns)

-----------------------------------------------------------------------------
(* Claims about the end of a slew window of the scale+slew clock (SpecSS). *)

\* C33: once a slew window has closed (slew_window_left_ns = 0) slew_scale
\* is 0, so that no read, the one that closes the window included, maps raw
\* time lying beyond the end of the window at rate base_scale + slew_scale.
C33_ClosedWindowNoSlew ==
    sw.slew_window_left_ns = 0 => sw.slew_scale.n = 0

-----------------------------------------------------------------------------
(* Claims about the frame of the event stream (SpecStream).                *)

\* C34: the records written to an event log start with LOG_START carrying
\* sequence number 0 and end with LOG_STOP: LOG_START is the first record and
\* the only holder of sequence number 0, no record follows LOG_STOP, and when
\* swclock_stop_event_log has returned the last record is LOG_STOP.
C34_StreamFramed ==
    /\ es.file # <<>> =>
           es.file[1] = [type |-> SWCLOCK_EVENT_LOG_START, seq |-> 0]
    /\ \A i \in 1..Len(es.file) :
           es.file[i].type = SWCLOCK_EVENT_LOG_STOP => i = Len(es.file)
    /\ es.user = "done" =>
           /\ es.file # <<>>
           /\ es.file[Len(es.file)].type = SWCLOCK_EVENT_LOG_STOP

-----------------------------------------------------------------------------
(* Claims about the sample ring of the monitor (SpecBuf, SpecMon).         *)

\* C35: after n calls of swclock_monitor_add_sample the ring holds
\* min(n, capacity) samples, and a snapshot returns the most recent
\* min(n, capacity) of the pushed samples, newest first in exact reverse push
\* order; past capacity each add has overwritten the oldest sample.
C35_RingHoldsNewest ==
    /\ mon.count = Min(Len(mth.pushed), mon.capacity)
    /\ mth.fresh => mth.snapshot = SubSeq(mth.pushed, 1, mon.count)

\* A snapshot of a ring that has wrapped: more samples pushed than it holds,
\* the oldest one kept differing from the newest one lost.
C35_Witness ==
    /\ mth.fresh
    /\ Len(mth.pushed) > mon.capacity
    /\ Len(mth.snapshot) = mon.capacity
    /\ mth.snapshot[1] # mth.snapshot[2]
    /\ mth.pushed[mon.capacity + 1] # mth.snapshot[mon.capacity]

\* C36: compute_mtie_tau and compute_tdev_tau read only samples at indices
\* in [0, count): in a computation on count samples no index i + m or
\* i + 2m of their loops reaches count.
C36_ReadsWithinCount ==
    mth.last # NoComputation =>
        LET count == Len(mth.last.samples)
            rate  == mon.sample_rate_dhz
        IN  /\ \A tau \in MtieTaus :
                   MtieIndices(count, TauSamples(tau, rate))
                       \subseteq 0..(count - 1)
            /\ \A tau \in TdevTaus :
                   TdevIndices(count, TauSamples(tau, rate))
                       \subseteq 0..(count - 1)

-----------------------------------------------------------------------------
(* Claims about the progress of the logger consumer (SpecEv).              *)

\* C37: every record swclock_log_event and swclock_ringbuf_push have
\* accepted can be popped by the logger: whenever no push and no pop is under
\* way and the ring is not empty, the record at read_pos carries a size that
\* swclock_ringbuf_pop accepts (not 0, at most the SWCLOCK_EVENT_MAX_SIZE
\* bytes of the logger's buffer), so that the pop does not fail for ever.
C37_RingHeadPoppable ==
    ( /\ \A t \in ProdThreads : prod[t].pc = "idle"
      /\ cons.pc = "idle"
      /\ rb.write_pos # rb.read_pos )
    => LET size_header == PopSizeHeader(rb.buffer, rb.read_pos)
       IN  size_header # 0 /\ size_header <= cons.max_size

-----------------------------------------------------------------------------
(* Claims about the monitor under the poll worker (SpecLife).              *)

\* C38: when swclock_enable_monitoring(c, false) runs while the poll worker
\* is active, the poll worker never calls swclock_monitor_add_sample on a
\* monitor that has been destroyed and freed: the monitor it passes is never
\* a freed one.
C38_NoSampleOnFreedMonitor ==
    lc.monitor_arg # "freed" /\ ~lc.monitor_uaf

-----------------------------------------------------------------------------
(* Claims about the adjtime-style entry points (SpecCompat).               *)

\* C39: for every requested delta and every max_slew_ppm > 0, sw_adjtime
\* installs a slew window of at least |delta| * 10^6 / max_slew_ppm
\* nanoseconds, also when |delta| * 10^6 does not fit in 64 bits.
C39_WindowBoundsSlewRate ==
    (ca.called /\ ca.max_slew_ppm > 0) =>
        /\ ~ca.trapped
        /\ ~ca.slew_window_left_ns.neg
        /\ WideCmp(ca.slew_window_left_ns.mag,
                   WideDiv(TimesE6(ca.req_ns.mag), ca.max_slew_ppm)) >= 0

-----------------------------------------------------------------------------
(* Claims about the advance a slew gives the clock (SpecSlew).             *)

\* One poll period's worth of correction at the maximum rate, in ns.
PollCorrectionMax ==
    (SWCLOCK_POLL_NS \div PPM_PER_ONE) * SWCLOCK_PI_MAX_PPM

\* C40 (as stated): for a slew started by ADJ_OFFSET d and worked down to
\* remaining_phase_ns = 0 by polls alone, the extra advance of base_rt_ns due
\* to the PI correction equals d to within SWCLOCK_PHASE_EPS_NS plus one poll
\* period's worth of correction at the maximum rate.
C40_SlewAdvancesByD ==
    (slw.adjusted /\ slw.polls >= 1 /\ clk.remaining_phase_ns = 0) =>
        Abs(sle.extra - slw.d) <= SWCLOCK_PHASE_EPS_NS + PollCorrectionMax

\* C40 (amended): the same when no poll of the slew came later than one poll
\* period after the step before it, with one nanosecond of truncation
\* allowed for each poll made.
C40_SlewAdvancesByDOnTime ==
    ( /\ slw.adjusted /\ slw.polls >= 1 /\ clk.remaining_phase_ns = 0
      /\ sle.late = 0 ) =>
        Abs(sle.extra - slw.d)
            <= SWCLOCK_PHASE_EPS_NS + PollCorrectionMax + slw.polls

\* A slew of more than the tolerance has been worked down by polls on time,
\* and its polls have advanced the clock.
C40_Witness ==
    /\ slw.adjusted
    /\ Abs(slw.d) > SWCLOCK_PHASE_EPS_NS + PollCorrectionMax + MaxSlewPolls
    /\ clk.remaining_phase_ns = 0
    /\ sle.late = 0
    /\ sle.extra # 0

=============================================================================
